---------------------------- MODULE Spec2Model ----------------------------
(***************************************************************************)
(* Model of the PostgreSQL explorer's session layer:                       *)
(*   - the main-process PostgreSQLService (src/lib/main/database-handler)  *)
(*   - the renderer PostgreSQLService that talks to it over IPC            *)
(*   - the zustand database store (connect / disconnect / test / query,    *)
(*     query history)                                                      *)
(*   - ConnectionManagerService over localStorage                          *)
(*   - the DatabaseSidebar component's tree of connections, schemas and    *)
(*     relations, with the lists it has loaded                             *)
(* Every asynchronous operation is a task that advances from one await to  *)
(* the next; the environment (driver, server) chooses each outcome.        *)
(*                                                                         *)
(* Nullable values are options: None is null/undefined, Some(x) is x.      *)
(* Strings that the code trims are sequences of characters.                *)
(* A pg Client object is a handle id 1..Len(handles); 0 is "no client".    *)
(* Client.end() always releases the handle, whether its promise resolves   *)
(* or rejects (the code cannot tell the difference: it drops the           *)
(* reference in both cases).                                               *)
(* Date readings are a logical clock that advances with every reading.     *)
(* A Map is a function over its possible keys whose value is None where    *)
(* the Map has no entry; a key `${connectionId}:${schemaName}` is the pair *)
(* <<connectionId, schemaName>>.  A function of a React component reads    *)
(* the component state of the render that created it: an asynchronous      *)
(* function keeps reading the state of the render in which it was called.  *)
(***************************************************************************)
EXTENDS Integers, Sequences, FiniteSets, TLC

\* ------------------------------------------------------------------ bounds

\* Columns of a query's answer in the type specification.
MaxFields == 2

\* Profiles the store may hold in the profile specification.
MaxStored == 2

\* Client objects the main process may construct in one run.
MaxHandles == 2

\* Clock readings (new Date()) in one run.
MaxClock == 2

\* Task slots: asynchronous operations that can be in flight together.
NTasks == 2

\* Successful runs explored by the history specification beyond the limit.
MaxExtraRuns == 2
\* the largest number of rows the server answers a query with
MaxRows == 101

\* ------------------------------------------------------------------ values

None == <<>>

Some(x) == <<x>>

\* addToQueryHistory keeps state.queryHistory.slice(0, 49) behind the new entry.
HistoryKeep == 49

IsWhitespace(c) == c = " "

RECURSIVE TrimStart(_)
TrimStart(s) ==
    IF s = <<>> THEN <<>>
    ELSE IF IsWhitespace(Head(s)) THEN TrimStart(Tail(s))
    ELSE s

RECURSIVE TrimEnd(_)
TrimEnd(s) ==
    IF s = <<>> THEN <<>>
    ELSE IF IsWhitespace(s[Len(s)]) THEN TrimEnd(SubSeq(s, 1, Len(s) - 1))
    ELSE s

\* String.prototype.trim
Trim(s) == TrimEnd(TrimStart(s))

\* JavaScript truthiness of a string
Truthy(s) == s # <<>>

\* Query texts offered to the store: empty, blank, and two that are not blank
\* (characters: " " is whitespace, the others are not).
Queries == { <<>>, <<" ">>, <<"a">>, <<" ", "b">> }

\* The optional argument of executeQuery(query?)
QueryArgs == {None} \cup {Some(q) : q \in Queries}

\* Connection profiles (PostgreSQLConnectionConfig).  id "" is "no id";
\* lastUsed 0 is "no lastUsed".
P1 == [id |-> "c1", host |-> "h1", password |-> "pw", savePassword |-> TRUE, lastUsed |-> 0]

P2 == [id |-> "c2", host |-> "h2", password |-> "pw", savePassword |-> FALSE, lastUsed |-> 0]

Profiles == {P1, P2}

\* The ids under which the sidebar keeps what it loaded.
ConnIds == {p.id : p \in Profiles}

\* The names the database knows, in the order of its collation.
Collation == <<"a", "b", "pg_catalog", "s1", "s2">>

\* The place of a name in the collation.
Rank(n) == CHOOSE i \in 1..Len(Collation) : Collation[i] = n

\* ORDER BY <name>: the names of a set, ascending
OrderByName(names) == SelectSeq(Collation, LAMBDA n : n \in names)

\* information_schema.schemata of the database
Schemata == {"pg_catalog", "s1", "s2"}

\* getSchemas: the rows of its query, mapped to their schema_name
GetSchemas ==
    OrderByName({n \in Schemata : n \notin {"information_schema", "pg_catalog", "pg_toast"}})

\* The schema names the sidebar can show.
SchemaNames == {GetSchemas[i] : i \in 1..Len(GetSchemas)}

\* The keys of tablesMap.
SchemaKeys == ConnIds \X SchemaNames

\* Relation names, and what a relation of the catalog can be:
\* information_schema.tables lists the first three with this table_type,
\* pg_matviews lists the materialized views.
RelationNames == {"a", "b"}

TableTypes == {"BASE TABLE", "VIEW", "FOREIGN"}

RelationKinds == TableTypes \cup {"MATVIEW"}

\* SQL NULL in a row
Null == "null"

\* CASE table_type WHEN 'BASE TABLE' THEN 'table' WHEN 'VIEW' THEN 'view' END
TypeOfTableType(tableType) ==
    IF tableType = "BASE TABLE" THEN "table"
    ELSE IF tableType = "VIEW" THEN "view"
    ELSE Null

\* The relations rels (one per name) in the order of their names.
OrderedByName(rels) ==
    LET names == OrderByName({r.name : r \in rels})
    IN  [i \in 1..Len(names) |-> CHOOSE r \in rels : r.name = names[i]]

\* getTables' first query: the tables and views of the schema
TablesQuery(cat, schema) ==
    LET found == OrderedByName({r \in cat : r.schema = schema /\ r.kind \in TableTypes})
    IN  [i \in 1..Len(found) |->
            [name |-> found[i].name, type |-> TypeOfTableType(found[i].kind)]]

\* getTables' second query: the materialized views of the schema
MatViewQuery(cat, schema) ==
    LET found == OrderedByName({r \in cat : r.schema = schema /\ r.kind = "MATVIEW"})
    IN  [i \in 1..Len(found) |-> [name |-> found[i].name, type |-> "materialized_view"]]

\* getTables: [...result.rows, ...matViewResult.rows]
GetTables(cat, schema) == TablesQuery(cat, schema) \o MatViewQuery(cat, schema)

\* A relation of the catalog.
Relation(schema, name, kind) == [schema |-> schema, name |-> name, kind |-> kind]

\* The database the session specifications run against: s1 has a table and
\* a view, s2 has no relation.
SomeCatalog == {Relation("s1", "a", "BASE TABLE"), Relation("s1", "b", "VIEW")}

\* The schema whose relations the calls made outside the sidebar ask for.
SomeSchema == "s1"

\* result.fields of the driver for columns of these type ids
PgFields(ids) ==
    [i \in 1..Len(ids) |-> [name |-> "c" \o ToString(i), dataTypeID |-> ids[i]]]

\* The columns the session specifications' queries are answered with.
SomeFields == PgFields(<<23>>)

\* A Map without entries, over the keys it may get.
EmptyMap(keys) == [k \in keys |-> None]

\* Messages
NotConnectedMsg == "No active database connection"

QueryFailedMsg == "syntax error"

SeveredMsg == "Connection terminated unexpectedly"

ConnectRefusedMsg == "connect ECONNREFUSED"

EndFailedMsg == "end failed"

IpcFailedMsg == "Error invoking remote method"

\* A value an async function returned, or the error it rejected with.
Returned(v) == [kind |-> "return", success |-> TRUE, message |-> "", value |-> v]

Thrown(msg) == [kind |-> "throw", success |-> FALSE, message |-> msg, value |-> None]

\* ConnectionTestResult
TestResult(ok, msg) == [kind |-> "return", success |-> ok, message |-> msg, value |-> None]

VARIABLES
    \* main process: PostgreSQLService
    client, config, mainConnectionConfig,
    \* the Client objects constructed so far
    handles,
    \* renderer: PostgreSQLService
    connectionConfig, connected,
    \* renderer: localStorage as used by ConnectionManagerService
    db_connections, last_used_connection_id,
    \* renderer: the store
    selectedConnection, isConnected, isConnecting, connectionError,
    currentQuery, queryHistory, queryResult, isExecutingQuery, queryError,
    \* renderer: the DatabaseSidebar component
    expandedConnections, expandedSchemas, schemasMap, tablesMap,
    loadingSchemas, loadingTables, error,
    \* renderer: the QueryResults component
    searchTerm, currentPage, rowsPerPage,
    \* the database the server holds: its relations, and the columns
    \* (result.fields) and rows (result.rows) it answers a query with
    catalog, pgFields, pgRows,
    \* environment
    now, tasks

mainVars == <<client, config, mainConnectionConfig>>

serviceVars == <<connectionConfig, connected>>

storageVars == <<db_connections, last_used_connection_id>>

connVars == <<selectedConnection, isConnected, isConnecting, connectionError>>

queryVars == <<currentQuery, queryHistory, queryResult, isExecutingQuery, queryError>>

serverVars == <<catalog, pgFields, pgRows>>

resultsVars == <<searchTerm, currentPage, rowsPerPage>>

sidebarVars == <<expandedConnections, expandedSchemas, schemasMap, tablesMap,
                 loadingSchemas, loadingTables, error>>

vars == <<client, config, mainConnectionConfig, handles, connectionConfig, connected,
          db_connections, last_used_connection_id,
          selectedConnection, isConnected, isConnecting, connectionError,
          currentQuery, queryHistory, queryResult, isExecutingQuery, queryError,
          expandedConnections, expandedSchemas, schemasMap, tablesMap,
          loadingSchemas, loadingTables, error, searchTerm, currentPage, rowsPerPage,
          catalog, pgFields, pgRows, now, tasks>>

TaskIds == 1..NTasks

\* ------------------------------------------------------------------ handles

NewHandle(kind) == [kind |-> kind, st |-> "created", opened |-> FALSE, severed |-> FALSE]

HandleIds == 1..Len(handles)

OpenHandles == {h \in HandleIds : handles[h].st = "open"}

OpenSessionHandles == {h \in OpenHandles : handles[h].kind = "session"}

OpenedCount == Cardinality({h \in HandleIds : handles[h].opened})

ClosedCount == Cardinality({h \in HandleIds : handles[h].opened /\ handles[h].st = "ended"})

\* new Client(clientConfig): a fresh handle, not yet connected
Construct(hs, kind) == Append(hs, NewHandle(kind))

\* the handle after client.connect() succeeded
Opened(hs, h) == [hs EXCEPT ![h].st = "open", ![h].opened = TRUE]

\* the handle after client.end() settled
Ended(hs, h) == [hs EXCEPT ![h].st = "ended", ![h].severed = FALSE]

\* the handle after the transport was lost
Severed(hs, h) == [hs EXCEPT ![h].severed = TRUE]

\* whether a query sent on h can be answered
Usable(h) == h \in HandleIds /\ handles[h].st = "open" /\ ~handles[h].severed

\* ------------------------------------------------------------------ main process

\* createClient: the ClientConfig built from a profile
ClientConfigOf(p) == [host |-> p.host, password |-> p.password]

\* ------------------------------------------------------------------ ConnectionManagerService

\* findIndex: the first index whose entry has this id, 0 when there is none
RECURSIVE FindIndexFrom(_, _, _)
FindIndexFrom(conns, id, i) ==
    IF i > Len(conns) THEN 0
    ELSE IF conns[i].id = id THEN i
    ELSE FindIndexFrom(conns, id, i + 1)

FindIndex(conns, id) == FindIndexFrom(conns, id, 1)

\* saveConnection's record without the removal of the password
ConnectionToSaveKeepingPassword(connection, freshId, time) ==
    [connection EXCEPT
        !.id = IF connection.id # "" THEN connection.id ELSE freshId,
        !.lastUsed = IF connection.lastUsed # 0 THEN connection.lastUsed ELSE time]

\* saveConnection's record to store: id and lastUsed filled in when absent
\* (freshId stands for uuidv4(), time for new Date()), password removed
\* unless it is to be saved
ConnectionToSave(connection, freshId, time) ==
    [connection EXCEPT
        !.id = IF connection.id # "" THEN connection.id ELSE freshId,
        !.lastUsed = IF connection.lastUsed # 0 THEN connection.lastUsed ELSE time,
        !.password = IF connection.savePassword THEN connection.password ELSE ""]

\* saveConnection that pushes the record without looking for its id
SaveConnectionListAlwaysPushing(conns, connection, freshId, time) ==
    Append(conns, ConnectionToSave(connection, freshId, time))

\* saveConnection: the stored list afterwards
SaveConnectionList(conns, connection, freshId, time) ==
    LET toSave == ConnectionToSave(connection, freshId, time)
        i == FindIndex(conns, toSave.id)
    IN  IF i > 0 THEN [conns EXCEPT ![i] = toSave] ELSE Append(conns, toSave)

\* updateLastUsed: the stored list afterwards (time is the Date it reads)
UpdateLastUsedList(conns, id, time) ==
    LET i == FindIndex(conns, id)
    IN  IF i = 0 THEN conns
        ELSE SaveConnectionList(conns, [conns[i] EXCEPT !.lastUsed = time], "", time)

\* updateLastUsed: the last-used key afterwards
UpdateLastUsedKey(conns, key, id) ==
    IF FindIndex(conns, id) = 0 THEN key ELSE Some(id)

\* deleteConnection: connections.filter((conn) => conn.id !== id)
DeleteConnectionList(conns, id) == SelectSeq(conns, LAMBDA c : c.id # id)

\* deleteConnection: whether an entry was removed
DeleteConnectionResult(conns, id) == Len(DeleteConnectionList(conns, id)) # Len(conns)

\* deleteConnection that leaves the last-used key alone
DeleteConnectionKeyKept(conns, key, id) == key

\* deleteConnection: the last-used key afterwards
DeleteConnectionKey(conns, key, id) ==
    IF DeleteConnectionResult(conns, id) /\ key = Some(id) THEN None ELSE key

\* getLastUsedConnection: the profile the last-used key names, None for null
GetLastUsedConnection(conns, key) ==
    IF key = None \/ key = Some("") THEN None
    ELSE IF FindIndex(conns, key[1]) = 0 THEN None
    ELSE Some(conns[FindIndex(conns, key[1])])

\* The ids uuidv4() may return.
Uuids == {"u" \o ToString(i) : i \in 1..MaxStored}

\* The ids of the stored profiles.
StoredIds(conns) == {conns[i].id : i \in 1..Len(conns)}

\* ------------------------------------------------------------------ tasks

Idle ==
    [op |-> "idle", via |-> "none", pc |-> "idle", arg |-> None, sql |-> <<>>,
     h |-> 0, res |-> Returned(None), sent |-> 0, svc |-> FALSE,
     closeFailed |-> FALSE, out |-> "none", pre |-> None,
     conn |-> "", schema |-> "", cause |-> "none"]

\* What the claims observe of the three layers.
Snapshot ==
    [client |-> client, config |-> config,
     mainConnectionConfig |-> mainConnectionConfig,
     connectionConfig |-> connectionConfig, connected |-> connected,
     selectedConnection |-> selectedConnection, isConnected |-> isConnected,
     isConnecting |-> isConnecting, connectionError |-> connectionError,
     currentQuery |-> currentQuery, queryHistory |-> queryHistory,
     queryResult |-> queryResult, isExecutingQuery |-> isExecutingQuery,
     queryError |-> queryError, ended |-> ClosedCount,
     severed |-> client # 0 /\ handles[client].severed,
     db_connections |-> db_connections,
     last_used_connection_id |-> last_used_connection_id,
     expandedConnections |-> expandedConnections, expandedSchemas |-> expandedSchemas,
     schemasMap |-> schemasMap, tablesMap |-> tablesMap]

NewTask(op, via, pc) ==
    [Idle EXCEPT !.op = op, !.via = via, !.pc = pc, !.pre = Some(Snapshot)]

AllIdle == \A t \in TaskIds : tasks[t].pc = "idle"

\* The slot a new call takes: the lowest one that is free.
FreeSlot(t) ==
    /\ tasks[t].pc = "idle"
    /\ \A u \in TaskIds : u < t => tasks[u].pc # "idle"

Done(t) == tasks[t].pc = "done"

\* The state in which call t was made.
Pre(t) == tasks[t].pre[1]

StoreCall(t, op) == Done(t) /\ tasks[t].op = op /\ tasks[t].via = "store"

\* Client objects that calls in flight have yet to construct.
PendingConstructs ==
    Cardinality({t \in TaskIds :
        \/ tasks[t].op = "connect" /\ tasks[t].pc \in {"ipc", "awaitEnd"}
        \/ tasks[t].op = "test" /\ tasks[t].pc = "ipc"})

\* Clock readings that calls in flight may yet make.
PendingReads ==
    Cardinality({t \in TaskIds :
        /\ tasks[t].op \in {"connect", "query"}
        /\ tasks[t].via \in {"store", "ui"}
        /\ tasks[t].pc \notin {"idle", "done"}})

RoomForClient == Len(handles) + PendingConstructs < MaxHandles

RoomForReading == now + PendingReads <= MaxClock

\* ------------------------------------------------------------------ ConnectionManagerService: calls

\* saveConnection(connection): uuidv4() returns an id that no stored profile
\* has, new Date() is read when the profile has no lastUsed; the record
\* stored is returned
SaveConnection(t, connection) ==
    \E freshId \in Uuids \ StoredIds(db_connections) :
        LET reads == connection.lastUsed = 0
            time == now + 1
        IN  /\ FreeSlot(t)
            /\ db_connections' = SaveConnectionList(db_connections, connection, freshId, time)
            /\ now' = IF reads THEN time ELSE now
            /\ tasks' = [tasks EXCEPT ![t] =
                    [NewTask("save", "manager", "done") EXCEPT
                        !.arg = Some(connection), !.out = "ok",
                        !.res = Returned(Some(ConnectionToSave(connection, freshId, time)))]]
            /\ UNCHANGED <<mainVars, handles, serviceVars, last_used_connection_id,
                           connVars, queryVars>>

\* deleteConnection(id): false when no profile has the id, otherwise the
\* profile is removed, and the last-used key with it if it named the profile
DeleteConnection(t, id) ==
    /\ FreeSlot(t)
    /\ db_connections' = DeleteConnectionList(db_connections, id)
    /\ last_used_connection_id' =
           DeleteConnectionKey(db_connections, last_used_connection_id, id)
    /\ tasks' = [tasks EXCEPT ![t] =
            [NewTask("delete", "manager", "done") EXCEPT !.conn = id,
                !.out = IF DeleteConnectionResult(db_connections, id) THEN "true" ELSE "false"]]
    /\ UNCHANGED <<mainVars, handles, serviceVars, connVars, queryVars, now>>

\* updateLastUsed(id): the profile, if stored, is saved with a new lastUsed
\* and named by the last-used key
UpdateLastUsed(t, id) ==
    /\ FreeSlot(t)
    /\ db_connections' = UpdateLastUsedList(db_connections, id, now + 1)
    /\ last_used_connection_id' = UpdateLastUsedKey(db_connections, last_used_connection_id, id)
    /\ now' = IF FindIndex(db_connections, id) # 0 THEN now + 1 ELSE now
    /\ tasks' = [tasks EXCEPT ![t] =
            [NewTask("updateLastUsed", "manager", "done") EXCEPT !.conn = id, !.out = "ok"]]
    /\ UNCHANGED <<mainVars, handles, serviceVars, connVars, queryVars>>

\* clearLastUsedConnection(): the last-used key is removed
ClearLastUsedConnection(t) ==
    /\ FreeSlot(t)
    /\ last_used_connection_id' = None
    /\ tasks' = [tasks EXCEPT ![t] =
            [NewTask("clearLastUsed", "manager", "done") EXCEPT !.out = "ok"]]
    /\ UNCHANGED <<mainVars, handles, serviceVars, db_connections, connVars, queryVars, now>>

\* ------------------------------------------------------------------ store: calls

\* store.connectToDatabase(connection), up to the IPC request of
\* postgresqlService.connect
ConnectToDatabase(t, p) ==
    /\ FreeSlot(t)
    /\ isConnecting' = TRUE
    /\ connectionError' = None
    /\ tasks' = [tasks EXCEPT ![t] =
            [NewTask("connect", "store", "ipc") EXCEPT !.arg = Some(p), !.svc = TRUE]]
    /\ UNCHANGED <<mainVars, handles, serviceVars, storageVars, selectedConnection,
                   isConnected, queryVars, now>>

\* store.disconnectFromDatabase(), up to the IPC request of
\* postgresqlService.disconnect
DisconnectFromDatabase(t) ==
    /\ FreeSlot(t)
    /\ tasks' = [tasks EXCEPT ![t] =
            [NewTask("disconnect", "store", "ipc") EXCEPT !.svc = TRUE]]
    /\ UNCHANGED <<mainVars, handles, serviceVars, storageVars, connVars, queryVars, now>>

\* store.testConnection(connection), up to the IPC request of
\* postgresqlService.testConnection
TestConnection(t, p) ==
    /\ FreeSlot(t)
    /\ tasks' = [tasks EXCEPT ![t] =
            [NewTask("test", "store", "ipc") EXCEPT !.arg = Some(p), !.svc = TRUE]]
    /\ UNCHANGED <<mainVars, handles, serviceVars, storageVars, connVars, queryVars, now>>

\* executeQuery's text to run: query || currentQuery
QueryToExecute(qarg) ==
    IF qarg # None /\ Truthy(qarg[1]) THEN qarg[1] ELSE currentQuery

\* store.executeQuery(query?) up to its first await that suspends: the
\* empty-query return, the renderer service's not-connected rejection (caught
\* in the same call), or the IPC request
ExecuteQueryFrom(t, qarg, via) ==
    LET q == QueryToExecute(qarg)
        call == [NewTask("query", via, "ipc") EXCEPT !.arg = qarg, !.sql = q]
    IN  /\ FreeSlot(t)
            /\ IF Trim(q) = <<>>
           THEN /\ tasks' = [tasks EXCEPT ![t] = [call EXCEPT !.pc = "done", !.out = "empty"]]
                /\ UNCHANGED <<isExecutingQuery, queryError>>
           ELSE IF ~connected
           THEN /\ tasks' = [tasks EXCEPT ![t] =
                        [call EXCEPT !.pc = "done", !.svc = TRUE, !.out = "error",
                                     !.res = Thrown(NotConnectedMsg)]]
                /\ isExecutingQuery' = FALSE
                /\ queryError' = Some(NotConnectedMsg)
           ELSE /\ tasks' = [tasks EXCEPT ![t] = [call EXCEPT !.svc = TRUE]]
                /\ isExecutingQuery' = TRUE
                /\ queryError' = None
        /\ UNCHANGED <<mainVars, handles, serviceVars, storageVars, connVars,
                       currentQuery, queryHistory, queryResult, now>>

ExecuteQuery(t, qarg) == ExecuteQueryFrom(t, qarg, "store")

\* QueryResults.handleExecuteQuery: returns when the editor's text is blank,
\* otherwise executeQuery()
HandleExecuteQuery(t) ==
    IF Trim(currentQuery) = <<>>
    THEN /\ FreeSlot(t)
         /\ tasks' = [tasks EXCEPT ![t] =
                 [NewTask("query", "ui", "done") EXCEPT !.sql = currentQuery, !.out = "empty"]]
         /\ UNCHANGED <<mainVars, handles, serviceVars, storageVars, connVars, queryVars, now>>
    ELSE ExecuteQueryFrom(t, None, "ui")

\* postgresqlService.getSchemas / getTables / getTableColumns, called on the
\* renderer service: the not-connected rejection or the IPC request
MetadataOps == {"schemas", "tables", "columns"}

ServiceMetadata(t, op) ==
    /\ FreeSlot(t)
    /\ op \in MetadataOps
    /\ IF ~connected
       THEN tasks' = [tasks EXCEPT ![t] =
                [NewTask(op, "service", "done") EXCEPT !.svc = TRUE, !.out = "error",
                                                       !.res = Thrown(NotConnectedMsg)]]
       ELSE tasks' = [tasks EXCEPT ![t] =
                [NewTask(op, "service", "ipc") EXCEPT !.svc = TRUE, !.schema = SomeSchema]]
    /\ UNCHANGED <<mainVars, handles, serviceVars, storageVars, connVars, queryVars, now>>

\* window.databaseApi.executeQuery / getSchemas / getTables / getTableColumns
\* invoked directly: the request goes to the main process whatever the
\* renderer service believes
ApiOps == {"query"} \cup MetadataOps

ApiInvoke(t, op, q) ==
    /\ FreeSlot(t)
    /\ op \in ApiOps
    /\ tasks' = [tasks EXCEPT ![t] =
            [NewTask(op, "api", "ipc") EXCEPT !.sql = q, !.schema = SomeSchema]]
    /\ UNCHANGED <<mainVars, handles, serviceVars, storageVars, connVars, queryVars, now>>

\* store.setCurrentQuery
SetCurrentQuery(q) ==
    /\ currentQuery' = q
    /\ UNCHANGED <<mainVars, handles, serviceVars, storageVars, connVars,
                   queryHistory, queryResult, isExecutingQuery, queryError, now, tasks>>

\* store.clearQueryResult
ClearQueryResult ==
    /\ queryResult' = None
    /\ queryError' = None
    /\ UNCHANGED <<mainVars, handles, serviceVars, storageVars, connVars,
                   currentQuery, queryHistory, isExecutingQuery, now, tasks>>

\* store.selectConnection
SelectConnection(c) ==
    /\ selectedConnection' = c
    /\ UNCHANGED <<mainVars, handles, serviceVars, storageVars, isConnected, isConnecting,
                   connectionError, queryVars, now, tasks>>

\* QueryResults: useState(100) of rowsPerPage
DefaultRowsPerPage == 100

\* Array.prototype.slice(0, n)
SliceFromStart(list, n) == SubSeq(list, 1, IF n < Len(list) THEN n ELSE Len(list))

\* addToQueryHistory that keeps slice(0, 50) behind the new entry
AddToQueryHistoryListKeepingOneMore(history, query, time) ==
    IF Trim(query) = <<>> THEN history
    ELSE <<[query |-> query, timestamp |-> time]>> \o SliceFromStart(history, HistoryKeep + 1)

\* addToQueryHistory: the history afterwards (time is the Date it reads)
AddToQueryHistoryList(history, query, time) ==
    IF Trim(query) = <<>> THEN history
    ELSE <<[query |-> query, timestamp |-> time]>> \o SliceFromStart(history, HistoryKeep)

\* store.saveConnection(connection): the profile is saved, and replaces the
\* selected one if that has its id (store.connections is read back from the
\* storage and is not kept apart from it here)
StoreSaveConnection(connection) ==
    \E freshId \in Uuids \ StoredIds(db_connections) :
        LET time == now + 1
            savedConnection == ConnectionToSave(connection, freshId, time)
        IN  /\ db_connections' = SaveConnectionList(db_connections, connection, freshId, time)
            /\ now' = IF connection.lastUsed = 0 THEN time ELSE now
            /\ selectedConnection' =
                   IF selectedConnection # None /\ savedConnection.id = selectedConnection[1].id
                   THEN Some(savedConnection) ELSE selectedConnection
            /\ UNCHANGED <<mainVars, handles, serviceVars, last_used_connection_id,
                           isConnected, isConnecting, connectionError, queryVars, tasks>>

\* store.deleteConnection(id): if a profile was deleted, the selected one is
\* dropped when it is the one deleted
StoreDeleteConnection(id) ==
    LET deleted == DeleteConnectionResult(db_connections, id)
    IN  /\ db_connections' = DeleteConnectionList(db_connections, id)
        /\ last_used_connection_id' =
               DeleteConnectionKey(db_connections, last_used_connection_id, id)
        /\ selectedConnection' =
               IF deleted /\ selectedConnection # None /\ selectedConnection[1].id = id
               THEN None ELSE selectedConnection
        /\ UNCHANGED <<mainVars, handles, serviceVars, isConnected, isConnecting,
                       connectionError, queryVars, now, tasks>>

\* store.addToQueryHistory(query)
AddToQueryHistory(q) ==
    /\ queryHistory' = AddToQueryHistoryList(queryHistory, q, now + 1)
    /\ now' = IF Trim(q) = <<>> THEN now ELSE now + 1
    /\ UNCHANGED <<mainVars, handles, serviceVars, storageVars, connVars,
                   currentQuery, queryResult, isExecutingQuery, queryError, tasks>>

\* ------------------------------------------------------------------ main process: handlers

\* createClient(config): records the configuration and constructs a Client;
\* the new Client is handle Len(handles) + 1
CreateClient(p, kind, hs) ==
    /\ config' = Some(ClientConfigOf(p))
    /\ mainConnectionConfig' = Some(p)
    /\ handles' = Construct(hs, kind)

\* connect(config) that opens the new client without closing the one held
MainConnectWithoutDisconnect(t) ==
    /\ tasks[t].op = "connect"
    /\ tasks[t].pc = "ipc"
    /\ CreateClient(tasks[t].arg[1], "session", handles)
    /\ client' = Len(handles) + 1
    /\ tasks' = [tasks EXCEPT ![t].pc = "awaitConnect", ![t].h = Len(handles) + 1]
    /\ UNCHANGED <<serviceVars, storageVars, connVars, queryVars, now>>

\* connect(config), from the IPC request to its first await that suspends:
\* client.end() of the client held, or else client.connect() of a new one
MainConnect(t) ==
    /\ tasks[t].op = "connect"
    /\ tasks[t].pc = "ipc"
    /\ IF client # 0
       THEN /\ tasks' = [tasks EXCEPT ![t].pc = "awaitEnd", ![t].h = client]
            /\ UNCHANGED <<mainVars, handles>>
       ELSE /\ CreateClient(tasks[t].arg[1], "session", handles)
            /\ client' = Len(handles) + 1
            /\ tasks' = [tasks EXCEPT ![t].pc = "awaitConnect", ![t].h = Len(handles) + 1]
    /\ UNCHANGED <<serviceVars, storageVars, connVars, queryVars, now>>

\* disconnect(), from the IPC request: client.end() of the client held, or
\* nothing
MainDisconnect(t) ==
    /\ tasks[t].op = "disconnect"
    /\ tasks[t].pc = "ipc"
    /\ IF client # 0
       THEN tasks' = [tasks EXCEPT ![t].pc = "awaitEnd", ![t].h = client]
       ELSE tasks' = [tasks EXCEPT ![t].pc = "reply", ![t].res = Returned(None)]
    /\ UNCHANGED <<mainVars, handles, serviceVars, storageVars, connVars, queryVars, now>>

\* disconnect() without its try/catch: a rejected client.end() is thrown on
\* (connect's catch block turns it into a failure result)
EndSettledThrowing(t, ok) ==
    /\ tasks[t].pc = "awaitEnd"
    /\ IF ~ok
       THEN /\ handles' = Ended(handles, tasks[t].h)
            /\ IF tasks[t].op = "connect"
               THEN /\ client' = 0
                    /\ config' = None
                    /\ tasks' = [tasks EXCEPT ![t].pc = "reply", ![t].closeFailed = TRUE,
                            ![t].res = TestResult(FALSE, "Failed to connect: " \o EndFailedMsg)]
               ELSE /\ UNCHANGED <<client, config>>
                    /\ tasks' = [tasks EXCEPT ![t].pc = "reply", ![t].closeFailed = TRUE,
                            ![t].res = Thrown(EndFailedMsg)]
            /\ UNCHANGED mainConnectionConfig
       ELSE IF tasks[t].op = "connect"
       THEN /\ CreateClient(tasks[t].arg[1], "session", Ended(handles, tasks[t].h))
            /\ client' = Len(handles) + 1
            /\ tasks' = [tasks EXCEPT ![t].pc = "awaitConnect", ![t].h = Len(handles) + 1]
       ELSE /\ handles' = Ended(handles, tasks[t].h)
            /\ client' = 0
            /\ config' = None
            /\ UNCHANGED mainConnectionConfig
            /\ tasks' = [tasks EXCEPT ![t].pc = "reply", ![t].res = Returned(None)]
    /\ UNCHANGED <<serviceVars, storageVars, connVars, queryVars, now>>

\* disconnect() after client.end() settled (resolved or rejected: the error
\* is logged): the finally block, and for connect the rest up to
\* client.connect()
EndSettled(t, ok) ==
    /\ tasks[t].pc = "awaitEnd"
    /\ IF tasks[t].op = "connect"
       THEN /\ CreateClient(tasks[t].arg[1], "session", Ended(handles, tasks[t].h))
            /\ client' = Len(handles) + 1
            /\ tasks' = [tasks EXCEPT ![t].pc = "awaitConnect", ![t].h = Len(handles) + 1,
                                      ![t].closeFailed = ~ok]
       ELSE /\ handles' = Ended(handles, tasks[t].h)
            /\ client' = 0
            /\ config' = None
            /\ UNCHANGED mainConnectionConfig
            /\ tasks' = [tasks EXCEPT ![t].pc = "reply", ![t].res = Returned(None),
                                      ![t].closeFailed = ~ok]
    /\ UNCHANGED <<serviceVars, storageVars, connVars, queryVars, now>>

\* connect(config) whose catch block forgets to drop the client
ConnectSettledKeepingClient(t, ok) ==
    /\ tasks[t].op = "connect"
    /\ tasks[t].pc = "awaitConnect"
    /\ IF ok
       THEN /\ handles' = Opened(handles, tasks[t].h)
            /\ tasks' = [tasks EXCEPT ![t].pc = "reply",
                    ![t].res = TestResult(TRUE, "Successfully connected to database")]
       ELSE /\ tasks' = [tasks EXCEPT ![t].pc = "reply",
                    ![t].res = TestResult(FALSE, "Failed to connect: " \o ConnectRefusedMsg)]
            /\ UNCHANGED handles
    /\ UNCHANGED <<mainVars, serviceVars, storageVars, connVars, queryVars, now>>

\* connect(config) after client.connect() settled: the success result, or
\* the catch block
ConnectSettled(t, ok) ==
    /\ tasks[t].op = "connect"
    /\ tasks[t].pc = "awaitConnect"
    /\ IF ok
       THEN /\ handles' = Opened(handles, tasks[t].h)
            /\ tasks' = [tasks EXCEPT ![t].pc = "reply",
                    ![t].res = TestResult(TRUE, "Successfully connected to database")]
            /\ UNCHANGED mainVars
       ELSE /\ client' = 0
            /\ config' = None
            /\ tasks' = [tasks EXCEPT ![t].pc = "reply",
                    ![t].res = TestResult(FALSE, "Failed to connect: " \o ConnectRefusedMsg)]
            /\ UNCHANGED <<mainConnectionConfig, handles>>
    /\ UNCHANGED <<serviceVars, storageVars, connVars, queryVars, now>>

\* testConnection(config), from the IPC request to tempClient.connect()
MainTestConnection(t) ==
    /\ tasks[t].op = "test"
    /\ tasks[t].pc = "ipc"
    /\ CreateClient(tasks[t].arg[1], "temp", handles)
    /\ tasks' = [tasks EXCEPT ![t].pc = "awaitTestConnect", ![t].h = Len(handles) + 1]
    /\ UNCHANGED <<client, serviceVars, storageVars, connVars, queryVars, now>>

\* testConnection after tempClient.connect() settled: SELECT 1 is sent, or
\* the failure result is kept and the finally block calls tempClient.end()
TestConnectSettled(t, ok) ==
    /\ tasks[t].op = "test"
    /\ tasks[t].pc = "awaitTestConnect"
    /\ IF ok
       THEN /\ handles' = Opened(handles, tasks[t].h)
            /\ tasks' = [tasks EXCEPT ![t].pc = "awaitTestQuery", ![t].sent = @ + 1]
       ELSE /\ tasks' = [tasks EXCEPT ![t].pc = "awaitTestEnd",
                    ![t].res = TestResult(FALSE, "Connection test failed: " \o ConnectRefusedMsg)]
            /\ UNCHANGED handles
    /\ UNCHANGED <<mainVars, serviceVars, storageVars, connVars, queryVars, now>>

\* testConnection after SELECT 1 settled; the finally block calls
\* tempClient.end()
TestQuerySettled(t, ok) ==
    /\ tasks[t].op = "test"
    /\ tasks[t].pc = "awaitTestQuery"
    /\ tasks' = [tasks EXCEPT ![t].pc = "awaitTestEnd",
            ![t].res = IF ok THEN TestResult(TRUE, "Connection test successful")
                       ELSE TestResult(FALSE, "Connection test failed: " \o QueryFailedMsg)]
    /\ UNCHANGED <<mainVars, handles, serviceVars, storageVars, connVars, queryVars, now>>

\* testConnection after tempClient.end() settled (an error is logged)
TestEndSettled(t, ok) ==
    /\ tasks[t].op = "test"
    /\ tasks[t].pc = "awaitTestEnd"
    /\ handles' = Ended(handles, tasks[t].h)
    /\ tasks' = [tasks EXCEPT ![t].pc = "reply", ![t].closeFailed = ~ok]
    /\ UNCHANGED <<mainVars, serviceVars, storageVars, connVars, queryVars, now>>

\* the query handlers without their "if (!this.client)" check
MainQueryUnguarded(t) ==
    /\ tasks[t].op \in ApiOps
    /\ tasks[t].pc = "ipc"
    /\ tasks' = [tasks EXCEPT ![t].pc = "awaitQuery", ![t].h = client, ![t].sent = @ + 1]
    /\ UNCHANGED <<mainVars, handles, serviceVars, storageVars, connVars, queryVars, now>>

\* executeQuery / getSchemas / getTables / getTableColumns, from the IPC
\* request: the not-connected error, or the (first) query sent on the client
MainQuery(t) ==
    /\ tasks[t].op \in ApiOps
    /\ tasks[t].pc = "ipc"
    /\ IF client = 0
       THEN tasks' = [tasks EXCEPT ![t].pc = "reply", ![t].res = Thrown(NotConnectedMsg)]
       ELSE tasks' = [tasks EXCEPT ![t].pc = "awaitQuery", ![t].h = client, ![t].sent = @ + 1]
    /\ UNCHANGED <<mainVars, handles, serviceVars, storageVars, connVars, queryVars, now>>

\* What the driver can answer to a query sent on handle h.
QueryOutcomes(h) == IF Usable(h) THEN {"ok", "error", "severed"} ELSE {"severed"}

\* getDataTypeName's typeMap
TypeMap ==
    (16 :> "boolean") @@ (23 :> "integer") @@ (21 :> "smallint") @@ (20 :> "bigint")
    @@ (700 :> "real") @@ (701 :> "double precision") @@ (1700 :> "numeric")
    @@ (25 :> "text") @@ (1043 :> "varchar") @@ (1082 :> "date") @@ (1114 :> "timestamp")
    @@ (1184 :> "timestamptz") @@ (114 :> "json") @@ (3802 :> "jsonb") @@ (2950 :> "uuid")
    @@ (1015 :> "text[]") @@ (1007 :> "integer[]")

\* typeMap[typeId] that returns the entry alone (undefined, here "", when
\* there is none)
GetDataTypeNameWithoutFallback(typeId) ==
    IF typeId \in DOMAIN TypeMap THEN TypeMap[typeId] ELSE ""

\* getDataTypeName: typeMap[typeId] || `unknown(${typeId})`
GetDataTypeName(typeId) ==
    IF typeId \in DOMAIN TypeMap /\ TypeMap[typeId] # ""
    THEN TypeMap[typeId]
    ELSE "unknown(" \o ToString(typeId) \o ")"

\* result.fields.map(...): name and dataTypeID kept, dataType added
FieldsOf(fs) ==
    [i \in 1..Len(fs) |->
        [name |-> fs[i].name, dataTypeID |-> fs[i].dataTypeID,
         dataType |-> GetDataTypeName(fs[i].dataTypeID)]]

\* The QueryResult built from the driver's answer to sql on handle h.
ResultOf(sql, h) ==
    [sql |-> sql, handle |-> h, fields |-> FieldsOf(pgFields), rows |-> pgRows]

\* What a handler returns once its queries succeeded: the schema names, the
\* relations, or the QueryResult.
AnswerOf(t) ==
    IF tasks[t].op = "schemas" THEN GetSchemas
    ELSE IF tasks[t].op = "tables" THEN GetTables(catalog, tasks[t].schema)
    ELSE ResultOf(tasks[t].sql, tasks[t].h)

\* a query settled: the result is returned (getTables sends its second query
\* first), or the driver's error is thrown on
QuerySettled(t, outcome) ==
    /\ tasks[t].op \in ApiOps
    /\ tasks[t].pc \in {"awaitQuery", "awaitQuery2"}
    /\ outcome \in QueryOutcomes(tasks[t].h)
    /\ IF outcome = "ok"
       THEN IF tasks[t].op = "tables" /\ tasks[t].pc = "awaitQuery"
            THEN IF client = 0
                 THEN tasks' = [tasks EXCEPT ![t].pc = "reply",
                          ![t].res = Thrown("Cannot read properties of null")]
                 ELSE tasks' = [tasks EXCEPT ![t].pc = "awaitQuery2", ![t].h = client,
                                             ![t].sent = @ + 1]
            ELSE tasks' = [tasks EXCEPT ![t].pc = "reply",
                     ![t].res = Returned(Some(AnswerOf(t)))]
       ELSE tasks' = [tasks EXCEPT ![t].pc = "reply",
                ![t].res = Thrown(IF outcome = "error" THEN QueryFailedMsg ELSE SeveredMsg)]
    /\ handles' = IF outcome = "severed" /\ tasks[t].h \in OpenHandles
                  THEN Severed(handles, tasks[t].h) ELSE handles
    /\ UNCHANGED <<mainVars, serviceVars, storageVars, connVars, queryVars, now>>

\* ------------------------------------------------------------------ renderer: continuations

\* The promise of a window.databaseApi call rejects without the main
\* process having handled the request.
IpcRejected(t) ==
    /\ tasks[t].pc = "ipc"
    /\ tasks' = [tasks EXCEPT ![t].pc = "reply", ![t].res = Thrown(IpcFailedMsg)]
    /\ UNCHANGED <<mainVars, handles, serviceVars, storageVars, connVars, queryVars, now>>


\* renderer connect: the result it returns for the IPC call's outcome
ServiceConnectResult(res) ==
    IF res.kind = "return" THEN res
    ELSE TestResult(FALSE, "Failed to connect: " \o res.message)

\* renderer testConnection: the result it returns for the IPC call's outcome
ServiceTestResult(res) ==
    IF res.kind = "return" THEN res
    ELSE TestResult(FALSE, "Connection test failed: " \o res.message)

\* connectToDatabase after postgresqlService.connect settled: the renderer
\* service's bookkeeping, then the store's
ConnectReply(t) ==
    LET p == tasks[t].arg[1]
        result == ServiceConnectResult(tasks[t].res)
        found == p.id # "" /\ FindIndex(db_connections, p.id) # 0
    IN  /\ connectionConfig' = IF result.success THEN Some(p) ELSE None
        /\ connected' = result.success
        /\ IF result.success
           THEN /\ db_connections' =
                      IF p.id # "" THEN UpdateLastUsedList(db_connections, p.id, now + 1)
                      ELSE db_connections
                /\ last_used_connection_id' =
                      IF p.id # ""
                      THEN UpdateLastUsedKey(db_connections, last_used_connection_id, p.id)
                      ELSE last_used_connection_id
                /\ now' = IF found THEN now + 1 ELSE now
                /\ isConnected' = TRUE
                /\ connectionError' = None
                /\ selectedConnection' = Some(p)
           ELSE /\ isConnected' = FALSE
                /\ connectionError' = Some(result.message)
                /\ UNCHANGED <<storageVars, now, selectedConnection>>
        /\ isConnecting' = FALSE
        /\ tasks' = [tasks EXCEPT ![t].pc = "done",
                ![t].out = IF result.success THEN "ok" ELSE "error"]
        /\ UNCHANGED <<mainVars, handles, queryVars>>

\* disconnectFromDatabase after postgresqlService.disconnect settled: the
\* renderer service's finally block, then the store's set (skipped when the
\* IPC call rejected, since the rejection is thrown on)
DisconnectReply(t) ==
    /\ connectionConfig' = None
    /\ connected' = FALSE
    /\ IF tasks[t].res.kind = "return"
       THEN /\ isConnected' = FALSE
            /\ connectionError' = None
            /\ queryResult' = None
            /\ queryError' = None
            /\ tasks' = [tasks EXCEPT ![t].pc = "done", ![t].out = "ok"]
       ELSE /\ UNCHANGED <<isConnected, connectionError, queryResult, queryError>>
            /\ tasks' = [tasks EXCEPT ![t].pc = "done", ![t].out = "throw"]
    /\ UNCHANGED <<mainVars, handles, storageVars, selectedConnection, isConnecting,
                   currentQuery, queryHistory, isExecutingQuery, now>>

\* store.testConnection after postgresqlService.testConnection settled
TestReply(t) ==
    /\ tasks' = [tasks EXCEPT ![t].pc = "done",
            ![t].out = IF ServiceTestResult(tasks[t].res).success THEN "ok" ELSE "error"]
    /\ UNCHANGED <<mainVars, handles, serviceVars, storageVars, connVars, queryVars, now>>

\* store.executeQuery whose catch block also marks the store disconnected
QueryReplyDisconnecting(t) ==
    /\ IF tasks[t].res.kind = "return"
       THEN /\ queryResult' = tasks[t].res.value
            /\ queryHistory' = AddToQueryHistoryList(queryHistory, tasks[t].sql, now + 1)
            /\ now' = IF Trim(tasks[t].sql) = <<>> THEN now ELSE now + 1
            /\ UNCHANGED <<queryError, isConnected>>
            /\ tasks' = [tasks EXCEPT ![t].pc = "done", ![t].out = "ok"]
       ELSE /\ queryError' = Some(tasks[t].res.message)
            /\ isConnected' = FALSE
            /\ UNCHANGED <<queryResult, queryHistory, now>>
            /\ tasks' = [tasks EXCEPT ![t].pc = "done", ![t].out = "error"]
    /\ isExecutingQuery' = FALSE
    /\ UNCHANGED <<mainVars, handles, serviceVars, storageVars, selectedConnection,
                   isConnecting, connectionError, currentQuery>>

\* store.executeQuery that adds the query to the history in its finally block
QueryReplyLoggingFailures(t) ==
    /\ IF tasks[t].res.kind = "return"
       THEN /\ queryResult' = tasks[t].res.value
            /\ UNCHANGED queryError
            /\ tasks' = [tasks EXCEPT ![t].pc = "done", ![t].out = "ok"]
       ELSE /\ queryError' = Some(tasks[t].res.message)
            /\ UNCHANGED queryResult
            /\ tasks' = [tasks EXCEPT ![t].pc = "done", ![t].out = "error"]
    /\ queryHistory' = AddToQueryHistoryList(queryHistory, tasks[t].sql, now + 1)
    /\ now' = IF Trim(tasks[t].sql) = <<>> THEN now ELSE now + 1
    /\ isExecutingQuery' = FALSE
    /\ UNCHANGED <<mainVars, handles, serviceVars, storageVars, connVars, currentQuery>>

\* store.executeQuery that drops a result when another call's result has
\* arrived since this call was made
QueryReplyKeepingFirstResult(t) ==
    /\ IF tasks[t].res.kind = "return"
       THEN /\ queryResult' = IF queryResult = Pre(t).queryResult
                               THEN tasks[t].res.value ELSE queryResult
            /\ queryHistory' = AddToQueryHistoryList(queryHistory, tasks[t].sql, now + 1)
            /\ now' = IF Trim(tasks[t].sql) = <<>> THEN now ELSE now + 1
            /\ UNCHANGED queryError
            /\ tasks' = [tasks EXCEPT ![t].pc = "done", ![t].out = "ok"]
       ELSE /\ queryError' = Some(tasks[t].res.message)
            /\ UNCHANGED <<queryResult, queryHistory, now>>
            /\ tasks' = [tasks EXCEPT ![t].pc = "done", ![t].out = "error"]
    /\ isExecutingQuery' = FALSE
    /\ UNCHANGED <<mainVars, handles, serviceVars, storageVars, connVars, currentQuery>>

\* store.executeQuery after postgresqlService.executeQuery settled: the
\* result is kept and the query added to the history, or the error is kept
QueryReply(t) ==
    /\ IF tasks[t].res.kind = "return"
       THEN /\ queryResult' = tasks[t].res.value
            /\ queryHistory' = AddToQueryHistoryList(queryHistory, tasks[t].sql, now + 1)
            /\ now' = IF Trim(tasks[t].sql) = <<>> THEN now ELSE now + 1
            /\ UNCHANGED queryError
            /\ tasks' = [tasks EXCEPT ![t].pc = "done", ![t].out = "ok"]
       ELSE /\ queryError' = Some(tasks[t].res.message)
            /\ UNCHANGED <<queryResult, queryHistory, now>>
            /\ tasks' = [tasks EXCEPT ![t].pc = "done", ![t].out = "error"]
    /\ isExecutingQuery' = FALSE
    /\ UNCHANGED <<mainVars, handles, serviceVars, storageVars, connVars, currentQuery>>

\* a call made on the renderer service or on window.databaseApi settled:
\* the caller gets the value or the error, nothing is recorded
PlainReply(t) ==
    /\ tasks' = [tasks EXCEPT ![t].pc = "done",
            ![t].out = IF tasks[t].res.kind = "return" THEN "ok" ELSE "error"]
    /\ UNCHANGED <<mainVars, handles, serviceVars, storageVars, connVars, queryVars, now>>

\* The IPC response reaches the renderer.
Reply(t) ==
    /\ tasks[t].pc = "reply"
    /\ IF tasks[t].via \in {"service", "api"} THEN PlainReply(t)
       ELSE IF tasks[t].op = "connect" THEN ConnectReply(t)
       ELSE IF tasks[t].op = "disconnect" THEN DisconnectReply(t)
       ELSE IF tasks[t].op = "test" THEN TestReply(t)
       ELSE QueryReply(t)

\* The caller has its answer: the call is over.
Return(t) ==
    /\ tasks[t].pc = "done"
    /\ tasks' = [tasks EXCEPT ![t] = Idle]
    /\ UNCHANGED <<mainVars, handles, serviceVars, storageVars, connVars, queryVars, now>>

\* ------------------------------------------------------------------ DatabaseSidebar

\* A Set with x added if it was absent, removed if it was present.
Toggled(set, x) == IF x \in set THEN set \ {x} ELSE set \cup {x}

\* isConnected && selectedConnection?.id === connectionId
ShowsAsConnected(id) ==
    isConnected /\ selectedConnection # None /\ selectedConnection[1].id = id

\* The connections the store listed when the window opened.
ListedConnections == <<ConnectionToSave(P1, "", 1), ConnectionToSave(P2, "", 1)>>

\* expandedSchemas.get(connectionId) || new Set()
ExpandedSchemasOf(id) == IF expandedSchemas[id] = None THEN {} ELSE expandedSchemas[id][1]

\* The schemas listed under a connection: its row must be expanded, shown
\* as connected and not loading, and its schema list must hold the name.
SchemaRowShown(id, schema) ==
    /\ id \in expandedConnections
    /\ ShowsAsConnected(id)
    /\ id \notin loadingSchemas
    /\ schemasMap[id] # None
    /\ \E i \in 1..Len(schemasMap[id][1]) : schemasMap[id][1][i] = schema

\* What loadSchemas and loadTables read of the render they were called in.
Closure == [schemasMap |-> schemasMap, tablesMap |-> tablesMap]

\* The slot of a handler's call: a free one when the handler starts a load,
\* none (written as the first) when it runs to its end at once.
SlotOf(t, loads) == IF loads THEN FreeSlot(t) ELSE t = 1

\* loadSchemas(connectionId), up to the IPC request of getSchemas (or to its
\* end when the renderer service rejects at once)
LoadSchemas(t, id, cause) ==
    LET call == [NewTask("schemas", "sidebar", "ipc") EXCEPT
                    !.conn = id, !.cause = cause, !.pre = Some(Closure)]
    IN  IF ~ShowsAsConnected(id)
        THEN UNCHANGED <<tasks, loadingSchemas, error>>
        ELSE IF ~connected
        THEN /\ UNCHANGED tasks
             /\ loadingSchemas' = loadingSchemas \ {id}
             /\ error' = Some("Failed to load schemas: " \o NotConnectedMsg)
        ELSE /\ tasks' = [tasks EXCEPT ![t] = [call EXCEPT !.svc = TRUE]]
             /\ loadingSchemas' = loadingSchemas \cup {id}
             /\ error' = None

\* loadTables(connectionId, schemaName), up to the IPC request of getTables
LoadTables(t, id, schema, cause) ==
    LET call == [NewTask("tables", "sidebar", "ipc") EXCEPT
                    !.conn = id, !.schema = schema, !.cause = cause, !.pre = Some(Closure)]
    IN  IF ~ShowsAsConnected(id)
        THEN UNCHANGED <<tasks, loadingTables, error>>
        ELSE IF ~connected
        THEN /\ UNCHANGED tasks
             /\ loadingTables' = loadingTables \ {<<id, schema>>}
             /\ error' = Some("Failed to load tables for schema " \o schema \o ": "
                              \o NotConnectedMsg)
        ELSE /\ tasks' = [tasks EXCEPT ![t] = [call EXCEPT !.svc = TRUE]]
             /\ loadingTables' = loadingTables \cup {<<id, schema>>}
             /\ UNCHANGED error

\* toggleConnection(connectionId): the chevron of a connection row
ToggleConnection(t, id) ==
    /\ SlotOf(t, id \notin expandedConnections /\ ShowsAsConnected(id))
    /\ expandedConnections' = Toggled(expandedConnections, id)
    /\ IF id \in expandedConnections
       THEN UNCHANGED <<tasks, loadingSchemas, error>>
       ELSE LoadSchemas(t, id, "toggleConnection")
    /\ UNCHANGED <<mainVars, handles, serviceVars, storageVars, connVars, queryVars,
                   expandedSchemas, schemasMap, tablesMap, loadingTables, serverVars, resultsVars, now>>

\* toggleSchema(connectionId, schemaName): a click on a schema row
ToggleSchema(t, id, schema) ==
    /\ SlotOf(t, schema \notin ExpandedSchemasOf(id) /\ tablesMap[<<id, schema>>] = None)
    /\ SchemaRowShown(id, schema)
    /\ expandedSchemas' =
           [expandedSchemas EXCEPT ![id] = Some(Toggled(ExpandedSchemasOf(id), schema))]
    /\ IF schema \in ExpandedSchemasOf(id) \/ tablesMap[<<id, schema>>] # None
       THEN UNCHANGED <<tasks, loadingTables, error>>
       ELSE LoadTables(t, id, schema, "toggleSchema")
    /\ UNCHANGED <<mainVars, handles, serviceVars, storageVars, connVars, queryVars,
                   expandedConnections, schemasMap, tablesMap, loadingSchemas, serverVars, resultsVars, now>>

\* refreshConnection(connectionId): the refresh button, shown for the
\* connected connection when it is expanded, disabled while its schemas load
RefreshConnection(t, id) ==
    /\ FreeSlot(t)
    /\ id \in expandedConnections
    /\ ShowsAsConnected(id)
    /\ id \notin loadingSchemas
    /\ schemasMap' = [schemasMap EXCEPT ![id] = None]
    /\ tablesMap' = [k \in SchemaKeys |-> IF k[1] = id THEN None ELSE tablesMap[k]]
    /\ LoadSchemas(t, id, "refreshConnection")
    /\ UNCHANGED <<mainVars, handles, serviceVars, storageVars, connVars, queryVars,
                   expandedConnections, expandedSchemas, loadingTables, serverVars, resultsVars, now>>

\* handleConnect(connection): a click on a connection row (or on its
\* Connect / Disconnect button), up to the IPC request of the store call
HandleConnect(t, connection) ==
    /\ IF ShowsAsConnected(connection.id)
       THEN DisconnectFromDatabase(t)
       ELSE ConnectToDatabase(t, connection)
    /\ UNCHANGED <<sidebarVars, serverVars, resultsVars>>

\* handleConnect after connectToDatabase settled: on success
\* toggleConnection(connection.id), which reads the state of the render in
\* which the row was clicked (there the connection did not show as
\* connected, so no schemas are loaded)
HandleConnectReply(t) ==
    LET id == tasks[t].arg[1].id
    IN  /\ tasks[t].pc = "reply"
        /\ tasks[t].op = "connect"
        /\ ConnectReply(t)
        /\ expandedConnections' =
               IF ServiceConnectResult(tasks[t].res).success
               THEN Toggled(Pre(t).expandedConnections, id)
               ELSE expandedConnections
        /\ UNCHANGED <<expandedSchemas, schemasMap, tablesMap, loadingSchemas,
                       loadingTables, error, serverVars, resultsVars>>

\* loadSchemas / loadTables after the service call settled: the list is put
\* into a copy of the Map the call started with, or the error is shown; the
\* loading mark is removed.  No caller waits for the call: it is over.
LoadReply(t) ==
    LET id == tasks[t].conn
        key == <<tasks[t].conn, tasks[t].schema>>
        ok == tasks[t].res.kind = "return"
        entry == tasks[t].res.value
    IN  /\ tasks[t].pc = "reply"
        /\ tasks[t].via = "sidebar"
        /\ IF tasks[t].op = "schemas"
           THEN /\ schemasMap' = IF ok THEN [Pre(t).schemasMap EXCEPT ![id] = entry]
                                 ELSE schemasMap
                /\ loadingSchemas' = loadingSchemas \ {id}
                /\ error' = IF ok THEN error
                            ELSE Some("Failed to load schemas: " \o tasks[t].res.message)
                /\ UNCHANGED <<tablesMap, loadingTables>>
           ELSE /\ tablesMap' = IF ok THEN [Pre(t).tablesMap EXCEPT ![key] = entry]
                                ELSE tablesMap
                /\ loadingTables' = loadingTables \ {key}
                /\ error' = IF ok THEN error
                            ELSE Some("Failed to load tables for schema " \o tasks[t].schema
                                      \o ": " \o tasks[t].res.message)
                /\ UNCHANGED <<schemasMap, loadingSchemas>>
        /\ tasks' = [tasks EXCEPT ![t] = Idle]
        /\ UNCHANGED <<mainVars, handles, serviceVars, storageVars, connVars, queryVars,
                       expandedConnections, expandedSchemas, serverVars, resultsVars, now>>

\* ------------------------------------------------------------------ QueryResults

\* A cell of a row is None (SQL NULL) or Some(text), the text a sequence of
\* characters; a row is the sequence of its cells (Object.values(row)).

\* the options of the page-size select
PageSizes == {10, 25, 50, 100, 250, 500}

\* what the user types into the search input
SearchTerms == { <<"a">>, <<"B">>, <<"a", "b">> }

\* String.prototype.toLowerCase over the letters of the model
ToLowerCase(s) ==
    [i \in 1..Len(s) |-> IF s[i] = "A" THEN "a" ELSE IF s[i] = "B" THEN "b" ELSE s[i]]

\* String.prototype.includes
Includes(s, sub) ==
    \E i \in 0..(Len(s) - Len(sub)) : SubSeq(s, i + 1, i + Len(sub)) = sub

\* Array.prototype.slice(start, end) with 0 <= start <= end
Slice(list, start, end) ==
    IF start >= Len(list) THEN <<>>
    ELSE SubSeq(list, start + 1, IF end < Len(list) THEN end ELSE Len(list))

\* the rows kept by the search: some cell that is not null contains the term,
\* letter case ignored; every row when the term is empty
FilteredRows(rows, term) ==
    LET lowerSearchTerm == ToLowerCase(term)
        Matches(row) ==
            \E k \in 1..Len(row) :
                /\ row[k] # None
                /\ Includes(ToLowerCase(row[k][1]), lowerSearchTerm)
    IN  IF term # <<>> THEN SelectSeq(rows, Matches) ELSE rows

\* displayedRows: the page of the filtered rows (result is the store's
\* queryResult, None or Some(the QueryResult))
DisplayedRows(result, term, page, perPage) ==
    IF result = None THEN <<>>
    ELSE LET startIndex == (page - 1) * perPage
             endIndex == startIndex + perPage
         IN  Slice(FilteredRows(result[1].rows, term), startIndex, endIndex)

\* totalPages: with a search term the count is the length of displayedRows,
\* the page already cut out of the filtered rows
TotalPages(result, term, page, perPage) ==
    IF result = None THEN 1
    ELSE LET filteredRowCount ==
                 IF term # <<>> THEN Len(DisplayedRows(result, term, page, perPage))
                 ELSE Len(result[1].rows)
             pages == (filteredRowCount + perPage - 1) \div perPage
         IN  IF pages > 1 THEN pages ELSE 1

totalPages == TotalPages(queryResult, searchTerm, currentPage, rowsPerPage)

\* The component renders the table, the search input and the pagination bar
\* only past its early returns.
ResultsShown ==
    /\ ~isExecutingQuery
    /\ queryError = None
    /\ queryResult # None
    /\ Len(queryResult[1].fields) > 0

\* handlePageChange(newPage)
HandlePageChange(newPage) ==
    /\ ~(newPage < 1 \/ newPage > totalPages)
    /\ currentPage' = newPage
    /\ UNCHANGED <<searchTerm, rowsPerPage>>

\* the previous and next buttons of the pagination bar, which is rendered
\* when totalPages > 1
PreviousPage ==
    /\ ResultsShown /\ totalPages > 1
    /\ currentPage # 1
    /\ HandlePageChange(currentPage - 1)

NextPage ==
    /\ ResultsShown /\ totalPages > 1
    /\ currentPage # totalPages
    /\ HandlePageChange(currentPage + 1)

\* the page-size select of the pagination bar
SelectRowsPerPage(n) ==
    /\ ResultsShown /\ totalPages > 1
    /\ rowsPerPage' = n
    /\ currentPage' = 1
    /\ UNCHANGED searchTerm

\* onChange of the search input
Search(value) ==
    /\ ResultsShown
    /\ searchTerm' = value
    /\ currentPage' = 1
    /\ UNCHANGED rowsPerPage

\* handleClearSearch, the button shown while there is a search term
HandleClearSearch ==
    /\ ResultsShown
    /\ searchTerm # <<>>
    /\ searchTerm' = <<>>
    /\ currentPage' = 1
    /\ UNCHANGED rowsPerPage

\* ------------------------------------------------------------------ specification

\* What localStorage may hold when the window opens: nothing, or the two
\* profiles as an earlier run saved them.
PersistedConnections ==
    { <<>>, <<ConnectionToSave(P1, "", 1), ConnectionToSave(P2, "", 1)>> }

InitProgram ==
    /\ client = 0
    /\ config = None
    /\ mainConnectionConfig = None
    /\ handles = <<>>
    /\ connectionConfig = None
    /\ connected = FALSE
    /\ db_connections \in PersistedConnections
    /\ last_used_connection_id = None
    /\ selectedConnection = None
    /\ isConnected = FALSE
    /\ isConnecting = FALSE
    /\ connectionError = None
    /\ currentQuery = <<>>
    /\ queryHistory = <<>>
    /\ queryResult = None
    /\ isExecutingQuery = FALSE
    /\ queryError = None
    /\ expandedConnections = {}
    /\ expandedSchemas = EmptyMap(ConnIds)
    /\ schemasMap = EmptyMap(ConnIds)
    /\ tablesMap = EmptyMap(SchemaKeys)
    /\ loadingSchemas = {}
    /\ loadingTables = {}
    /\ error = None
    /\ searchTerm = <<>>
    /\ currentPage = 1
    /\ rowsPerPage = DefaultRowsPerPage
    /\ now = 1
    /\ tasks = [t \in TaskIds |-> Idle]

Init == InitProgram /\ catalog = SomeCatalog /\ pgFields = SomeFields /\ pgRows = <<>>

\* The steps of connect, disconnect and the query operations in flight.
SessionStep(t) ==
    \/ MainConnect(t)
    \/ MainDisconnect(t)
    \/ MainQuery(t)
    \/ \E ok \in BOOLEAN : EndSettled(t, ok)
    \/ \E ok \in BOOLEAN : ConnectSettled(t, ok)
    \/ \E outcome \in {"ok", "error", "severed"} : QuerySettled(t, outcome)
    \/ Reply(t)
    \/ Return(t)

\* The steps of testConnection in flight.
TestStep(t) ==
    \/ MainTestConnection(t)
    \/ \E ok \in BOOLEAN : TestConnectSettled(t, ok)
    \/ \E ok \in BOOLEAN : TestQuerySettled(t, ok)
    \/ \E ok \in BOOLEAN : TestEndSettled(t, ok)

Step(t) == SessionStep(t) \/ TestStep(t)

\* The query text the session specification runs.
SomeQuery == <<" ", "a">>

\* Session lifecycle: connect, disconnect, test and the query operations,
\* each call made when no other call is in flight.
Call(t) ==
    /\ AllIdle
    /\ \/ \E p \in Profiles : RoomForClient /\ RoomForReading /\ ConnectToDatabase(t, p)
       \/ DisconnectFromDatabase(t)
       \/ \E p \in Profiles : RoomForClient /\ TestConnection(t, p)
       \/ RoomForReading /\ ExecuteQuery(t, Some(SomeQuery))
       \/ \E op \in MetadataOps : ServiceMetadata(t, op)
       \/ \E op \in ApiOps : ApiInvoke(t, op, SomeQuery)

Next ==
    \/ \E t \in TaskIds : Call(t) /\ UNCHANGED <<sidebarVars, serverVars, resultsVars>>
    \/ \E t \in TaskIds : Step(t) /\ UNCHANGED <<sidebarVars, serverVars, resultsVars>>

Spec == Init /\ [][Next]_vars

\* ------------------------------------------------------------------ query specification

\* Running queries: every argument of executeQuery against every editor
\* text, connected or not, each call made when no other call is in flight.
QueryCall(t) ==
    /\ AllIdle
    /\ \/ RoomForClient /\ ConnectToDatabase(t, P1)
       \/ DisconnectFromDatabase(t)
       \/ \E qarg \in QueryArgs : RoomForReading /\ ExecuteQuery(t, qarg)
       \/ RoomForReading /\ HandleExecuteQuery(t)

QuerySync ==
    /\ AllIdle
    /\ \/ \E q \in Queries : SetCurrentQuery(q)
       \/ ClearQueryResult

InitQuery == Init /\ db_connections = <<>>

NextQuery ==
    \/ \E t \in TaskIds : QueryCall(t) /\ UNCHANGED <<sidebarVars, serverVars, resultsVars>>
    \/ \E t \in TaskIds : SessionStep(t) /\ UNCHANGED <<sidebarVars, serverVars, resultsVars>>
    \/ QuerySync /\ UNCHANGED <<sidebarVars, serverVars, resultsVars>>

SpecQuery == InitQuery /\ [][NextQuery]_vars

\* ------------------------------------------------------------------ history specification

\* Room for one more successful run: the history may fill and then take
\* MaxExtraRuns more.
RoomForRun == now + PendingReads <= HistoryKeep + 1 + MaxExtraRuns

HistoryCall(t) ==
    /\ AllIdle
    /\ \/ RoomForClient /\ ConnectToDatabase(t, P1)
       \/ DisconnectFromDatabase(t)
       \/ RoomForRun /\ ExecuteQuery(t, Some(SomeQuery))

HistorySync ==
    /\ AllIdle
    /\ \E q \in {<<>>, <<" ">>, SomeQuery} : RoomForRun /\ AddToQueryHistory(q)

NextHistory ==
    \/ \E t \in TaskIds : HistoryCall(t) /\ UNCHANGED <<sidebarVars, serverVars, resultsVars>>
    \/ \E t \in TaskIds : SessionStep(t) /\ UNCHANGED <<sidebarVars, serverVars, resultsVars>>
    \/ HistorySync /\ UNCHANGED <<sidebarVars, serverVars, resultsVars>>

SpecHistory == InitQuery /\ [][NextHistory]_vars

\* ------------------------------------------------------------------ sidebar specification

\* The tree of the sidebar: the first listed connection is connected and
\* disconnected (when nothing is in flight), expanded and collapsed,
\* refreshed, and its schemas are expanded and collapsed while an earlier
\* load may still be in flight.
SidebarCall(t) ==
    \/ /\ AllIdle
       /\ ShowsAsConnected(ListedConnections[1].id) \/ (RoomForClient /\ RoomForReading)
       /\ HandleConnect(t, ListedConnections[1])
    \/ ToggleConnection(t, ListedConnections[1].id)
    \/ \E schema \in SchemaNames : ToggleSchema(t, ListedConnections[1].id, schema)
    \/ RefreshConnection(t, ListedConnections[1].id)

\* The steps of the main process for the calls in flight; the server
\* accepts every connection and closes every one cleanly, a query it may
\* reject.
MainStep(t) ==
    \/ MainConnect(t)
    \/ MainDisconnect(t)
    \/ MainQuery(t)
    \/ EndSettled(t, TRUE)
    \/ ConnectSettled(t, TRUE)
    \/ \E outcome \in {"ok", "error"} : QuerySettled(t, outcome)

\* The IPC response reaches the sidebar's call.
SidebarReply(t) ==
    \/ HandleConnectReply(t)
    \/ /\ tasks[t].pc = "reply"
       /\ tasks[t].op = "disconnect"
       /\ DisconnectReply(t)
       /\ UNCHANGED <<sidebarVars, serverVars, resultsVars>>
    \/ LoadReply(t)

InitSidebar == Init /\ db_connections = ListedConnections

NextSidebar ==
    \/ \E t \in TaskIds : SidebarCall(t)
    \/ \E t \in TaskIds : MainStep(t) /\ UNCHANGED <<sidebarVars, serverVars, resultsVars>>
    \/ \E t \in TaskIds : SidebarReply(t)
    \/ \E t \in TaskIds : Return(t) /\ UNCHANGED <<sidebarVars, serverVars, resultsVars>>

SpecSidebar == InitSidebar /\ [][NextSidebar]_vars

\* ------------------------------------------------------------------ relations specification

\* The databases getTables is run against: every choice of relations for
\* the names of schema s1, each a table, a view, a foreign table or a
\* materialized view.
Catalogs ==
    { {Relation(SomeSchema, n, kinds[n]) : n \in DOMAIN kinds} :
        kinds \in UNION {[names -> RelationKinds] : names \in SUBSET RelationNames} }

RelationsCall(t) ==
    /\ AllIdle
    /\ \/ RoomForClient /\ ConnectToDatabase(t, P1)
       \/ DisconnectFromDatabase(t)
       \/ ServiceMetadata(t, "tables")

InitRelations ==
    /\ InitProgram
    /\ catalog \in Catalogs
    /\ pgFields = SomeFields
    /\ pgRows = <<>>
    /\ db_connections = <<>>

NextRelations ==
    \/ \E t \in TaskIds : RelationsCall(t) /\ UNCHANGED <<sidebarVars, serverVars, resultsVars>>
    \/ \E t \in TaskIds : SessionStep(t) /\ UNCHANGED <<sidebarVars, serverVars, resultsVars>>

SpecRelations == InitRelations /\ [][NextRelations]_vars

\* ------------------------------------------------------------------ type specification

\* Type ids that typeMap does not list.
UnknownTypeIds == {0, 17, 9999}

TypeIds == DOMAIN TypeMap \cup UnknownTypeIds

\* Type ids the answers of several columns are made of.
MixedTypeIds == {23, 1043, 0, 9999}

\* The answers executeQuery is run against: no column, one column of every
\* type id, and up to MaxFields columns of the mixed ones.
FieldLists ==
    {<<>>} \cup {<<id>> : id \in TypeIds}
           \cup UNION {[1..n -> MixedTypeIds] : n \in 2..MaxFields}

TypesCall(t) ==
    /\ AllIdle
    /\ \/ RoomForClient /\ ConnectToDatabase(t, P1)
       \/ RoomForReading /\ ExecuteQuery(t, Some(SomeQuery))

\* The steps of connect and executeQuery in flight.
TypesStep(t) ==
    \/ MainConnect(t)
    \/ MainQuery(t)
    \/ EndSettled(t, TRUE)
    \/ ConnectSettled(t, TRUE)
    \/ \E outcome \in {"ok", "error"} : QuerySettled(t, outcome)
    \/ Reply(t)
    \/ Return(t)

InitTypes ==
    /\ InitProgram
    /\ catalog = SomeCatalog
    /\ pgFields \in {PgFields(ids) : ids \in FieldLists}
    /\ pgRows = <<>>
    /\ db_connections = <<>>

NextTypes ==
    \/ \E t \in TaskIds : TypesCall(t) /\ UNCHANGED <<sidebarVars, serverVars, resultsVars>>
    \/ \E t \in TaskIds : TypesStep(t) /\ UNCHANGED <<sidebarVars, serverVars, resultsVars>>

SpecTypes == InitTypes /\ [][NextTypes]_vars

\* ------------------------------------------------------------------ overlap specification

\* The texts of the calls that overlap.
OverlapQueries == {<<"a">>, <<" ", "b">>}

\* One session is opened, and executeQuery is called on it while other
\* calls of it are in flight.
OverlapCall(t) ==
    \/ AllIdle /\ Len(handles) = 0 /\ ConnectToDatabase(t, P1)
    \/ \E q \in OverlapQueries : connected /\ RoomForReading /\ ExecuteQuery(t, Some(q))

\* The steps of the connect and of the calls of executeQuery in flight.
OverlapStep(t) ==
    \/ MainConnect(t)
    \/ MainQuery(t)
    \/ ConnectSettled(t, TRUE)
    \/ \E outcome \in {"ok", "error"} : QuerySettled(t, outcome)
    \/ Reply(t)
    \/ Return(t)

NextOverlap ==
    \/ \E t \in TaskIds : OverlapCall(t) /\ UNCHANGED <<sidebarVars, serverVars, resultsVars>>
    \/ \E t \in TaskIds : OverlapStep(t) /\ UNCHANGED <<sidebarVars, serverVars, resultsVars>>

SpecOverlap == InitQuery /\ [][NextOverlap]_vars

\* ------------------------------------------------------------------ connect specification

\* Clicks on the connection rows: the row's onClick is handleConnect and is
\* not disabled while a connect is in flight (the Connect button is).
ConnectCall(t) ==
    \E i \in 1..Len(ListedConnections) :
        /\ ShowsAsConnected(ListedConnections[i].id) \/ (RoomForClient /\ RoomForReading)
        /\ HandleConnect(t, ListedConnections[i])

\* The steps of the connects and disconnects in flight.
ConnectStep(t) ==
    \/ MainConnect(t)
    \/ MainDisconnect(t)
    \/ EndSettled(t, TRUE)
    \/ ConnectSettled(t, TRUE)

ConnectReturn(t) ==
    \/ HandleConnectReply(t)
    \/ /\ tasks[t].pc = "reply"
       /\ tasks[t].op = "disconnect"
       /\ DisconnectReply(t)
       /\ UNCHANGED <<sidebarVars, serverVars, resultsVars>>
    \/ Return(t) /\ UNCHANGED <<sidebarVars, serverVars, resultsVars>>

NextConnect ==
    \/ \E t \in TaskIds : ConnectCall(t)
    \/ \E t \in TaskIds : ConnectStep(t) /\ UNCHANGED <<sidebarVars, serverVars, resultsVars>>
    \/ \E t \in TaskIds : ConnectReturn(t)

SpecConnect == InitSidebar /\ [][NextConnect]_vars

\* ------------------------------------------------------------------ profile specification

\* The ids callers pass: none, the two profiles' own, and the generated ones
\* (a profile read back from the store), and one that is never stored.
CallerIds == ConnIds \cup Uuids \cup {"zz"}

\* The profiles handed to saveConnection: with and without an id, with and
\* without a lastUsed.
ProfilesToSave ==
    {[P2 EXCEPT !.id = id] : id \in {""} \cup ConnIds}
        \cup {[P1 EXCEPT !.id = id, !.lastUsed = lastUsed] :
                  id \in {""} \cup ConnIds \cup Uuids, lastUsed \in {0, 1}}

\* Whether saveConnection(connection) would add an entry.
Adds(connection) ==
    connection.id = "" \/ FindIndex(db_connections, connection.id) = 0

ProfilesCall(t) ==
    /\ AllIdle
    /\ \/ \E connection \in ProfilesToSave :
            /\ Adds(connection) => Len(db_connections) < MaxStored
            /\ connection.lastUsed = 0 => RoomForReading
            /\ SaveConnection(t, connection)
       \/ \E id \in CallerIds : DeleteConnection(t, id)
       \/ \E id \in CallerIds : RoomForReading /\ UpdateLastUsed(t, id)
       \/ ClearLastUsedConnection(t)

NextProfiles ==
    \/ \E t \in TaskIds : ProfilesCall(t) /\ UNCHANGED <<sidebarVars, serverVars, resultsVars>>
    \/ \E t \in TaskIds : Return(t) /\ UNCHANGED <<sidebarVars, serverVars, resultsVars>>

SpecProfiles == Init /\ [][NextProfiles]_vars

\* ------------------------------------------------------------------ fault specification

\* The four asynchronous store operations, each called when no other call
\* is in flight.
FaultCall(t) ==
    /\ AllIdle
    /\ \/ RoomForClient /\ ConnectToDatabase(t, P1)
       \/ DisconnectFromDatabase(t)
       \/ RoomForClient /\ TestConnection(t, P1)
       \/ RoomForReading /\ ExecuteQuery(t, Some(SomeQuery))

\* Every outcome of the IPC call: the main process handles it and answers
\* with a result or an error, or the call rejects.
FaultStep(t) == Step(t) \/ IpcRejected(t)

NextFault ==
    \/ \E t \in TaskIds : FaultCall(t) /\ UNCHANGED <<sidebarVars, serverVars, resultsVars>>
    \/ \E t \in TaskIds : FaultStep(t) /\ UNCHANGED <<sidebarVars, serverVars, resultsVars>>

SpecFault == InitQuery /\ [][NextFault]_vars

\* ------------------------------------------------------------------ concurrent connect specification

\* connect requests sent while others are in flight.
RequestsCall(t) ==
    \E p \in Profiles : RoomForClient /\ RoomForReading /\ ConnectToDatabase(t, p)

\* The steps of the connects in flight; client.connect() resolves only on a
\* client that has not been ended meanwhile, and the responses reach the
\* renderer in the order in which the handlers returned.
RequestsStep(t) ==
    \/ MainConnect(t)
    \/ \E ok \in BOOLEAN : EndSettled(t, ok)
    \/ \E ok \in BOOLEAN :
          /\ ok => tasks[t].pc = "awaitConnect" /\ handles[tasks[t].h].st = "created"
          /\ \A u \in TaskIds : tasks[u].pc # "reply"
          /\ ConnectSettled(t, ok)
    \/ Reply(t)
    \/ Return(t)

NextRequests ==
    \/ \E t \in TaskIds : RequestsCall(t) /\ UNCHANGED <<sidebarVars, serverVars, resultsVars>>
    \/ \E t \in TaskIds : RequestsStep(t) /\ UNCHANGED <<sidebarVars, serverVars, resultsVars>>

SpecRequests == InitQuery /\ [][NextRequests]_vars

\* ------------------------------------------------------------------ store specification

\* connectToDatabase and disconnectFromDatabase, each called when no other
\* call is in flight.
StoreAsync(t) ==
    /\ AllIdle
    /\ \/ \E p \in Profiles : RoomForClient /\ RoomForReading /\ ConnectToDatabase(t, p)
       \/ DisconnectFromDatabase(t)

\* selectConnection, saveConnection and deleteConnection.
StoreSync ==
    /\ AllIdle
    /\ \/ \E c \in {None} \cup {Some(p) : p \in Profiles} : SelectConnection(c)
       \/ \E connection \in Profiles \cup {[P1 EXCEPT !.host = "h2"]} :
             /\ FindIndex(db_connections, connection.id) = 0 =>
                    Len(db_connections) < MaxStored
             /\ RoomForReading
             /\ StoreSaveConnection(connection)
       \/ \E id \in ConnIds : StoreDeleteConnection(id)

\* The steps of the connects and disconnects in flight.
StoreStep(t) ==
    \/ MainConnect(t)
    \/ MainDisconnect(t)
    \/ EndSettled(t, TRUE)
    \/ \E ok \in BOOLEAN : ConnectSettled(t, ok)
    \/ Reply(t)
    \/ Return(t)

NextStore ==
    \/ \E t \in TaskIds : StoreAsync(t) /\ UNCHANGED <<sidebarVars, serverVars, resultsVars>>
    \/ StoreSync /\ UNCHANGED <<sidebarVars, serverVars, resultsVars>>
    \/ \E t \in TaskIds : StoreStep(t) /\ UNCHANGED <<sidebarVars, serverVars, resultsVars>>

SpecStore == Init /\ [][NextStore]_vars

\* ------------------------------------------------------------------ results specification

\* The tables the queries read: as many rows as n, of one text cell "a"
\* each, or of two cells, a null and a text that is "Ab" on the odd rows and
\* "c" on the even ones.
RowSets ==
    {[i \in 1..n |-> <<Some(<<"a">>)>>] : n \in {0, 1, MaxRows}}
    \cup {[i \in 1..MaxRows |->
              <<None, Some(IF i % 2 = 1 THEN <<"A", "b">> ELSE <<"c">>)>>]}

\* Another statement, or another state of the tables, gives other rows.
RowsChange ==
    /\ AllIdle
    /\ pgRows' \in RowSets \ {pgRows}
    /\ UNCHANGED <<mainVars, handles, serviceVars, storageVars, connVars, queryVars,
                   sidebarVars, resultsVars, catalog, pgFields, now, tasks>>

\* One connect, then queries run one after the other.
ResultsCall(t) ==
    /\ AllIdle
    /\ \/ Len(handles) = 0 /\ ConnectToDatabase(t, P1)
       \/ connected /\ RoomForReading /\ ExecuteQuery(t, Some(SomeQuery))

\* What the user does in the component between the queries.
ResultsUi ==
    /\ \/ PreviousPage
       \/ NextPage
       \/ \E n \in PageSizes : SelectRowsPerPage(n)
       \/ \E value \in SearchTerms : Search(value)
       \/ HandleClearSearch
    /\ UNCHANGED <<mainVars, handles, serviceVars, storageVars, connVars, queryVars,
                   sidebarVars, serverVars, now, tasks>>

NextResults ==
    \/ \E t \in TaskIds : ResultsCall(t) /\ UNCHANGED <<sidebarVars, serverVars, resultsVars>>
    \/ \E t \in TaskIds : OverlapStep(t) /\ UNCHANGED <<sidebarVars, serverVars, resultsVars>>
    \/ RowsChange
    \/ ResultsUi

SpecResults == InitQuery /\ [][NextResults]_vars

\* ------------------------------------------------------------------ properties

\* C1: over calls of connect, disconnect and testConnection made one after
\* another, at most one session handle is open at any time; when a
\* disconnect has completed every handle that was opened has been closed;
\* and when a connect has completed the main process holds exactly the
\* client that connect opened (none if it failed) whatever it held before,
\* so connect after connect ends as connect after disconnect does.
C1_NoHandleLeak ==
    /\ Cardinality(OpenSessionHandles) <= 1
    /\ \A t \in TaskIds :
        /\ StoreCall(t, "disconnect") => OpenedCount = ClosedCount
        /\ StoreCall(t, "connect") =>
            LET ok == handles[tasks[t].h].opened
            IN  /\ client = IF ok THEN tasks[t].h ELSE 0
                /\ OpenSessionHandles = IF ok THEN {tasks[t].h} ELSE {}
                /\ OpenedCount - ClosedCount = IF ok THEN 1 ELSE 0
                /\ config = IF ok THEN Some(ClientConfigOf(tasks[t].arg[1])) ELSE None
                /\ mainConnectionConfig = tasks[t].arg

\* Two connects in a row, both successful, then a disconnect: both handles
\* were opened and both are closed.
C1_Witness ==
    \E t \in TaskIds :
        /\ StoreCall(t, "disconnect")
        /\ Len(handles) = 2
        /\ \A h \in HandleIds : handles[h].kind = "session" /\ handles[h].opened
        /\ Pre(t).client = 2

\* C2: when connect fails to open the connection, from any prior state, it
\* returns a failure result instead of raising, the main process holds no
\* client, the renderer service is not connected and has no configuration,
\* and the store is not connected and keeps the reason in connectionError.
C2_FailedConnect ==
    \A t \in TaskIds :
        StoreCall(t, "connect") /\ ~handles[tasks[t].h].opened =>
            /\ tasks[t].res.kind = "return"
            /\ ~tasks[t].res.success
            /\ tasks[t].res.message # ""
            /\ tasks[t].out = "error"
            /\ client = 0
            /\ OpenSessionHandles = {}
            /\ ~connected
            /\ connectionConfig = None
            /\ ~isConnected
            /\ ~isConnecting
            /\ connectionError = Some(tasks[t].res.message)

\* A connect that failed while a session was connected.
C2_Witness ==
    \E t \in TaskIds :
        /\ StoreCall(t, "connect")
        /\ ~handles[tasks[t].h].opened
        /\ Pre(t).client # 0
        /\ Pre(t).isConnected

\* C3: testConnection leaves the session as it was: the client, the stored
\* configuration and the connectivity are the same after it as before, in
\* the main process, the renderer service and the store.
C3_TestLeavesSession ==
    \A t \in TaskIds :
        StoreCall(t, "test") =>
            /\ client = Pre(t).client
            /\ config = Pre(t).config
            /\ mainConnectionConfig = Pre(t).mainConnectionConfig
            /\ connectionConfig = Pre(t).connectionConfig
            /\ connected = Pre(t).connected
            /\ selectedConnection = Pre(t).selectedConnection
            /\ isConnected = Pre(t).isConnected

\* C4: disconnect completes without raising in every state, also when
\* closing the handle fails, and leaves no client in the main process, the
\* renderer service not connected and without configuration, the store not
\* connected; made in a state a disconnect has left, it closes nothing and
\* changes nothing.
C4_DisconnectIdempotent ==
    \A t \in TaskIds :
        StoreCall(t, "disconnect") =>
            /\ tasks[t].out = "ok"
            /\ client = 0
            /\ OpenSessionHandles = {}
            /\ ~connected
            /\ connectionConfig = None
            /\ ~isConnected
            /\ ( /\ Pre(t).client = 0
                 /\ ~Pre(t).connected
                 /\ Pre(t).connectionConfig = None
                 /\ ~Pre(t).isConnected
                 /\ Pre(t).connectionError = None
                 /\ Pre(t).queryResult = None
                 /\ Pre(t).queryError = None
                 => tasks[t].h = 0 /\ Snapshot = Pre(t) )

\* A disconnect of a connected session whose client.end() failed.
C4_Witness ==
    \E t \in TaskIds :
        /\ StoreCall(t, "disconnect")
        /\ tasks[t].closeFailed
        /\ Pre(t).client # 0
        /\ Pre(t).isConnected

\* C5: when the session is not connected, executeQuery, getSchemas,
\* getTables and getTableColumns fail with "No active database connection"
\* and send no query: in the renderer service when connected is false, in
\* the main process when client is null.
C5_NotConnected ==
    \A t \in TaskIds :
        Done(t) /\ tasks[t].op \in ApiOps /\ tasks[t].out # "empty" =>
            /\ tasks[t].via \in {"store", "ui", "service"} /\ ~Pre(t).connected =>
                /\ tasks[t].res = Thrown(NotConnectedMsg)
                /\ tasks[t].out = "error"
                /\ tasks[t].sent = 0
                /\ tasks[t].via = "store" => queryError = Some(NotConnectedMsg)
            /\ tasks[t].via = "api" /\ Pre(t).client = 0 =>
                /\ tasks[t].res = Thrown(NotConnectedMsg)
                /\ tasks[t].sent = 0

\* getTables reached the main process while it held no client.
C5_Witness ==
    \E t \in TaskIds :
        /\ Done(t)
        /\ tasks[t].op = "tables"
        /\ tasks[t].via = "api"
        /\ Pre(t).client = 0

\* C6: a query the database rejects while the session is connected changes
\* nothing but queryError: client, connected flag, configurations,
\* isConnected, selectedConnection, result and history are as before, and
\* the session still accepts a query.
C6_QueryFailureKeepsSession ==
    \A t \in TaskIds :
        StoreCall(t, "query") /\ tasks[t].res = Thrown(QueryFailedMsg) =>
            /\ [Snapshot EXCEPT !.queryError = Pre(t).queryError] = Pre(t)
            /\ queryError = Some(QueryFailedMsg)
            /\ connected
            /\ isConnected
            /\ Usable(client)

\* A rejected query after a successful one: the earlier result is still shown.
C6_Witness ==
    \E t \in TaskIds :
        /\ StoreCall(t, "query")
        /\ tasks[t].res = Thrown(QueryFailedMsg)
        /\ queryResult # None
        /\ isConnected

\* C7: when the transport is severed while a query executes, the session
\* is no longer connected, and every later executeQuery or metadata call
\* reports "No active database connection" until a new connect succeeds.
C7_SeveredMeansNotConnected ==
    \A t \in TaskIds :
        Done(t) /\ tasks[t].op \in ApiOps =>
            /\ tasks[t].res = Thrown(SeveredMsg) /\ tasks[t].via = "store" =>
                ~connected /\ ~isConnected
            /\ Pre(t).severed => tasks[t].res = Thrown(NotConnectedMsg)

\* C8: executeQuery of an empty or blank string fails as an empty query in
\* every store state: the renderer service is not called, no query is sent,
\* and history, queryResult and queryError stay as they were.
C8_BlankRunContactsNothing ==
    \A t \in TaskIds :
        /\ StoreCall(t, "query")
        /\ tasks[t].arg # None
        /\ Trim(tasks[t].arg[1]) = <<>>
        => /\ tasks[t].out = "empty"
           /\ ~tasks[t].svc
           /\ tasks[t].sent = 0
           /\ queryHistory = Pre(t).queryHistory
           /\ queryResult = Pre(t).queryResult
           /\ queryError = Pre(t).queryError

\* C9: a run that does not succeed leaves the history as it was, whether
\* the text was blank, the session not connected or the query rejected; a
\* run that changed the history got a result from the database.
C9_FailedRunNotInHistory ==
    \A t \in TaskIds :
        Done(t) /\ tasks[t].op = "query" /\ tasks[t].via \in {"store", "ui"} =>
            /\ tasks[t].out # "ok" => queryHistory = Pre(t).queryHistory
            /\ queryHistory # Pre(t).queryHistory =>
                /\ tasks[t].res.kind = "return"
                /\ tasks[t].sent = 1
                /\ Head(queryHistory).query = tasks[t].sql

\* A rejected query after a successful one: the history still has one entry.
C9_Witness ==
    \E t \in TaskIds :
        /\ StoreCall(t, "query")
        /\ tasks[t].res = Thrown(QueryFailedMsg)
        /\ Len(queryHistory) = 1

\* C10: the history holds at most 50 entries, most recent first, none with
\* blank text: it is exactly the latest insertions (the clock is read only
\* by insertions here, so the i-th entry carries the i-th latest reading),
\* and a successful run puts its entry in front of the first 49 before it.
C10_HistoryBounded ==
    /\ Len(queryHistory) <= HistoryKeep + 1
    /\ Len(queryHistory) = IF now - 1 < HistoryKeep + 1 THEN now - 1 ELSE HistoryKeep + 1
    /\ \A i \in 1..Len(queryHistory) :
        /\ Trim(queryHistory[i].query) # <<>>
        /\ queryHistory[i].timestamp = now + 1 - i
        /\ \A j \in 1..Len(queryHistory) :
            i < j => queryHistory[i].timestamp > queryHistory[j].timestamp
    /\ \A t \in TaskIds :
        StoreCall(t, "query") /\ tasks[t].out = "ok" =>
            /\ Head(queryHistory).query = tasks[t].sql
            /\ \A i \in 2..Len(queryHistory) : queryHistory[i] = Pre(t).queryHistory[i - 1]

\* The 51st successful run: the history was full and is full.
C10_Witness ==
    \E t \in TaskIds :
        /\ StoreCall(t, "query")
        /\ tasks[t].out = "ok"
        /\ Len(Pre(t).queryHistory) = HistoryKeep + 1
        /\ Len(queryHistory) = HistoryKeep + 1
        /\ now = HistoryKeep + 3

\* A load of the sidebar that is in flight.
Loading(t, op) == tasks[t].via = "sidebar" /\ tasks[t].op = op /\ tasks[t].pc # "idle"

\* The step in which the load t of the sidebar settles, with or without a list.
LoadSettles(t, op, ok) ==
    /\ Loading(t, op)
    /\ tasks[t].pc = "reply"
    /\ (tasks[t].res.kind = "return") = ok
    /\ tasks'[t] = Idle

\* C11: within one connected session and without a refresh in between, the
\* schema list of the connected connection is queried once however often
\* the connection is expanded: an expansion sends getSchemas only when no
\* schema list is cached for the connection.  (While only one client has
\* ever been constructed, a cached list was loaded in the session that is
\* connected, and a refresh would have removed it.)
C11_SchemasQueriedOnce ==
    \A t \in TaskIds :
        /\ Loading(t, "schemas")
        /\ tasks[t].cause = "toggleConnection"
        /\ Len(handles) = 1
        => Pre(t).schemasMap[tasks[t].conn] = None

\* C12: a relation list that was loaded stays in the cache until a refresh
\* removes it, also when it is empty, and expanding a schema whose list is
\* in the cache sends no getTables: once loaded, a schema is not queried
\* again however often it is collapsed and expanded.
C12_RelationsQueriedOnce ==
    [][ /\ \A k \in SchemaKeys :
            tablesMap[k] # None /\ tablesMap'[k] = None =>
                \E t \in TaskIds : RefreshConnection(t, k[1])
        /\ \A t \in TaskIds, id \in ConnIds, schema \in SchemaNames :
            /\ ToggleSchema(t, id, schema)
            /\ schema \notin ExpandedSchemasOf(id)
            /\ tablesMap[<<id, schema>>] # None
            => UNCHANGED tasks
      ]_vars

\* C13: when a disconnect has completed, and when a connect has completed
\* successfully, the schema and relation maps hold no entry: nothing that
\* was loaded before can be shown without a new query.
C13_CacheDiscarded ==
    \A t \in TaskIds :
        Done(t) /\ tasks[t].op \in {"connect", "disconnect"} /\ tasks[t].out = "ok" =>
            /\ schemasMap = EmptyMap(ConnIds)
            /\ tablesMap = EmptyMap(SchemaKeys)

\* C14: a refresh of the connected connection removes its cached schema
\* list and all its cached relation lists and sends getSchemas anew; from
\* then on a relation list appears in the cache only as the answer to a
\* getTables for that schema, so every schema is queried again when it is
\* next expanded.
C14_RefreshInvalidates ==
    [][ /\ \A t \in TaskIds, id \in ConnIds :
            RefreshConnection(t, id) =>
                /\ schemasMap'[id] = None
                /\ \A k \in SchemaKeys : k[1] = id => tablesMap'[k] = None
                /\ tasks'[t].op = "schemas" /\ tasks'[t].pc = "ipc"
        /\ \A k \in SchemaKeys :
            tablesMap[k] = None /\ tablesMap'[k] # None =>
                \E t \in TaskIds :
                    LoadSettles(t, "tables", TRUE) /\ <<tasks[t].conn, tasks[t].schema>> = k
      ]_vars

\* C15: when getSchemas or getTables fails, the cache has no entry for that
\* connection or schema afterwards and the loading mark of the node is
\* removed; a request for a node without entry sends a new query.
C15_FailedLoadLeavesAbsent ==
    [][ /\ \A t \in TaskIds :
            /\ LoadSettles(t, "schemas", FALSE) =>
                /\ schemasMap'[tasks[t].conn] = None
                /\ tasks[t].conn \notin loadingSchemas'
            /\ LoadSettles(t, "tables", FALSE) =>
                /\ tablesMap'[<<tasks[t].conn, tasks[t].schema>>] = None
                /\ <<tasks[t].conn, tasks[t].schema>> \notin loadingTables'
        /\ \A t \in TaskIds, id \in ConnIds, schema \in SchemaNames :
            /\ ToggleSchema(t, id, schema)
            /\ schema \notin ExpandedSchemasOf(id)
            /\ tablesMap[<<id, schema>>] = None
            => tasks'[t].op = "tables" /\ tasks'[t].pc = "ipc"
      ]_vars

\* C16: what getTables returns for a schema is the schema's tables, views
\* and materialized views, each once, as one sequence in ascending order of
\* name, each with its kind: table, view or materialized_view.
C16_RelationsOrderedUnion ==
    \A t \in TaskIds :
        Done(t) /\ tasks[t].op = "tables" /\ tasks[t].out = "ok" =>
            LET rows == tasks[t].res.value[1]
                KindOf(k) == IF k = "BASE TABLE" THEN "table"
                             ELSE IF k = "VIEW" THEN "view"
                             ELSE "materialized_view"
                wanted == {[name |-> r.name, type |-> KindOf(r.kind)] :
                              r \in {x \in catalog : /\ x.schema = tasks[t].schema
                                                     /\ x.kind \in {"BASE TABLE", "VIEW", "MATVIEW"}}}
            IN  /\ {rows[i] : i \in 1..Len(rows)} = wanted
                /\ Len(rows) = Cardinality(wanted)
                /\ \A i, j \in 1..Len(rows) : i < j => Rank(rows[i].name) < Rank(rows[j].name)
                /\ \A i \in 1..Len(rows) :
                       rows[i].type \in {"table", "view", "materialized_view"}

\* C17: the result of a successful executeQuery has one field for every
\* column of the answer, with its name and type id, and a dataType that is
\* not empty: the listed name for a type id typeMap lists (23 gives
\* "integer"), and "unknown(<id>)" for every other type id.
C17_TypeResolutionTotal ==
    \A t \in TaskIds :
        StoreCall(t, "query") /\ tasks[t].out = "ok" =>
            LET fields == queryResult[1].fields
            IN  /\ Len(fields) = Len(pgFields)
                /\ \A i \in 1..Len(fields) :
                    LET id == pgFields[i].dataTypeID
                    IN  /\ fields[i].name = pgFields[i].name
                        /\ fields[i].dataTypeID = id
                        /\ fields[i].dataType # ""
                        /\ id = 23 => fields[i].dataType = "integer"
                        /\ id \in DOMAIN TypeMap => fields[i].dataType = TypeMap[id]
                        /\ id \notin DOMAIN TypeMap =>
                               fields[i].dataType = "unknown(" \o ToString(id) \o ")"

\* A result of two columns, one of type 23 and one of a type that typeMap
\* does not list.
C17_Witness ==
    \E t \in TaskIds :
        /\ StoreCall(t, "query")
        /\ tasks[t].out = "ok"
        /\ Len(queryResult[1].fields) = 2
        /\ queryResult[1].fields[1].dataType = "integer"
        /\ queryResult[1].fields[2].dataType = "unknown(9999)"

\* The response of store call t of executeQuery arrives with a result.
QuerySucceeds(t) ==
    /\ tasks[t].op = "query"
    /\ tasks[t].via = "store"
    /\ tasks[t].pc = "reply"
    /\ tasks[t].res.kind = "return"
    /\ tasks'[t].pc = "done"

\* C18: whenever the response of a successful executeQuery arrives,
\* queryResult becomes that call's result and its query goes to the front of
\* the history, whatever other calls are in flight; and if another call that
\* overlapped it has already succeeded, that call's query is in the history
\* too, behind it: the last completion wins.
C18_LastCompletionWins ==
    [][\A t \in TaskIds :
          QuerySucceeds(t) =>
              /\ queryResult' = tasks[t].res.value
              /\ queryResult'[1].sql = tasks[t].sql
              /\ queryHistory' # <<>>
              /\ Head(queryHistory').query = tasks[t].sql
              /\ \A u \in TaskIds \ {t} :
                    StoreCall(u, "query") /\ tasks[u].out = "ok" =>
                        \E i \in 2..Len(queryHistory') :
                            queryHistory'[i].query = tasks[u].sql]_vars

\* Two overlapping calls have succeeded, the one made first being the last
\* to complete: its result and its query are the ones in front.
C18_Witness ==
    /\ StoreCall(1, "query") /\ tasks[1].out = "ok"
    /\ StoreCall(2, "query") /\ tasks[2].out = "ok"
    /\ Pre(2).isExecutingQuery
    /\ Pre(2).queryHistory = <<>>
    /\ tasks[1].sql # tasks[2].sql
    /\ Len(queryHistory) = 2
    /\ queryHistory[1].query = tasks[1].sql
    /\ queryHistory[2].query = tasks[2].sql
    /\ queryResult[1].sql = tasks[1].sql

\* Connect requests that have not been answered yet.
OutstandingConnects ==
    {t \in TaskIds : tasks[t].op = "connect" /\ tasks[t].pc \notin {"idle", "done"}}

\* C19: no connectToDatabase and no disconnect is started from the sidebar
\* while a connect is in flight (isConnecting = true), so at most one
\* connect request is outstanding at any time.
C19_ConnectsSerialized ==
    /\ \A t \in TaskIds :
          tasks[t].op \in {"connect", "disconnect"} => ~Pre(t).isConnecting
    /\ Cardinality(OutstandingConnects) <= 1

\* Call t of the ConnectionManagerService method op has returned.
ManagerCall(t, op) == Done(t) /\ tasks[t].op = op /\ tasks[t].via = "manager"

\* C20: the stored profiles always have pairwise distinct, non-empty ids;
\* saveConnection of a profile without an id appends it under an id no stored
\* profile had, saveConnection of a profile whose id is stored replaces that
\* entry where it is and keeps the number of entries, and deleteConnection of
\* an id that is not stored returns false and leaves the store as it was.
C20_ProfileIdsDistinct ==
    /\ \A i \in 1..Len(db_connections) :
          /\ db_connections[i].id # ""
          /\ \A j \in 1..Len(db_connections) :
                db_connections[i].id = db_connections[j].id => i = j
    /\ \A t \in TaskIds :
          ManagerCall(t, "save") =>
              LET connection == tasks[t].arg[1]
                  saved == tasks[t].res.value[1]
                  before == Pre(t).db_connections
                  i == FindIndex(before, connection.id)
              IN  /\ connection.id = "" =>
                        /\ db_connections = Append(before, saved)
                        /\ saved.id # ""
                        /\ saved.id \notin StoredIds(before)
                  /\ connection.id # "" /\ i # 0 =>
                        /\ Len(db_connections) = Len(before)
                        /\ db_connections = [before EXCEPT ![i] = saved]
                        /\ saved.id = connection.id
    /\ \A t \in TaskIds :
          ManagerCall(t, "delete") /\ tasks[t].conn \notin StoredIds(Pre(t).db_connections) =>
              /\ tasks[t].out = "false"
              /\ db_connections = Pre(t).db_connections
              /\ last_used_connection_id = Pre(t).last_used_connection_id

\* A store that holds a profile saved without an id, in which the first of
\* several profiles has just been saved again under its id.
C20_Witness ==
    \E t \in TaskIds :
        /\ ManagerCall(t, "save")
        /\ Len(db_connections) = MaxStored
        /\ StoredIds(db_connections) \cap Uuids # {}
        /\ tasks[t].arg[1].id = db_connections[1].id
        /\ db_connections[1] # Pre(t).db_connections[1]

\* C21: every stored profile that does not ask for its password to be
\* saved has an empty password, whatever saveConnection and updateLastUsed
\* calls were made, and so has the profile saveConnection returns.
C21_PasswordNotPersisted ==
    /\ \A i \in 1..Len(db_connections) :
          ~db_connections[i].savePassword => db_connections[i].password = ""
    /\ \A t \in TaskIds :
          ManagerCall(t, "save") =>
              LET saved == tasks[t].res.value[1]
              IN  /\ saved.savePassword = tasks[t].arg[1].savePassword
                  /\ ~saved.savePassword => saved.password = ""

\* A profile stored with its password has just been saved again, with a
\* password but without savePassword, and updateLastUsed was called before.
C21_Witness ==
    \E t \in TaskIds :
        /\ ManagerCall(t, "save")
        /\ ~tasks[t].arg[1].savePassword
        /\ tasks[t].arg[1].password # ""
        /\ Pre(t).last_used_connection_id # None
        /\ \E i \in 1..Len(db_connections) :
              /\ db_connections[i].id = tasks[t].arg[1].id
              /\ Pre(t).db_connections[i].password # ""
              /\ db_connections[i].password = ""

\* C22: connectToDatabase, disconnectFromDatabase, testConnection and
\* executeQuery of the store never reject, whatever the outcome of the IPC
\* call: a failure is a returned value or an error field of the store.
C22_NoUncaughtFault ==
    \A t \in TaskIds :
        Done(t) /\ tasks[t].via = "store" => tasks[t].out # "throw"

\* Call t of connect has been invoked and has not completed.
Connecting(t) == tasks[t].op = "connect" /\ tasks[t].pc \notin {"idle", "done"}

\* C23: connect is invoked only on a session that is not connected, and
\* from its invocation until it completes the session is not connected
\* (isConnected() is false, so executeQuery is rejected as not connected);
\* once a connect has succeeded the session is connected with the given
\* profile as the active one.
C23_ConnectStateMachine ==
    \A t \in TaskIds :
        /\ Connecting(t) => ~Pre(t).connected /\ ~connected
        /\ Done(t) /\ tasks[t].op = "connect" /\ tasks[t].out = "ok" =>
              connected /\ connectionConfig = tasks[t].arg
        /\ Done(t) /\ tasks[t].op = "connect" /\ tasks[t].out = "error" => ~connected

\* C24: once every connect request has completed, whatever the
\* interleaving of their awaits, the only client that is open is the one
\* this.client refers to, and if the last connect result the renderer
\* received was a success then this.client is not null.
C24_ConnectsSettleCleanly ==
    (\A t \in TaskIds : tasks[t].pc \in {"idle", "done"}) =>
        /\ \A h \in OpenSessionHandles : h = client
        /\ connected => client # 0

\* C25: whenever the store is connected, selectedConnection is set and is
\* the profile of the live connection.
C25_ConnectedHasProfile ==
    isConnected => selectedConnection # None /\ selectedConnection = connectionConfig

\* C26: the last-used connection id is either unset or the id of a stored
\* profile, whatever saveConnection, deleteConnection, updateLastUsed and
\* clearLastUsedConnection calls were made: getLastUsedConnection returns a
\* profile whenever an id is recorded.
C26_LastUsedIsStored ==
    /\ last_used_connection_id # None =>
          /\ last_used_connection_id[1] \in StoredIds(db_connections)
          /\ GetLastUsedConnection(db_connections, last_used_connection_id) # None
          /\ GetLastUsedConnection(db_connections, last_used_connection_id)[1].id
                = last_used_connection_id[1]
    /\ \A t \in TaskIds :
          ManagerCall(t, "updateLastUsed") =>
              last_used_connection_id =
                  IF tasks[t].conn \in StoredIds(Pre(t).db_connections)
                  THEN Some(tasks[t].conn) ELSE Pre(t).last_used_connection_id

\* The last-used profile has just been deleted from a store that holds
\* another one: the reference is gone.
C26_Witness ==
    \E t \in TaskIds :
        /\ ManagerCall(t, "delete")
        /\ Pre(t).last_used_connection_id = Some(tasks[t].conn)
        /\ tasks[t].out = "true"
        /\ db_connections # <<>>
        /\ last_used_connection_id = None

\* Store calls of op that are awaiting their result.
Awaiting(op) ==
    {t \in TaskIds : /\ tasks[t].op = op
                     /\ tasks[t].via \in {"store", "ui"}
                     /\ tasks[t].pc \notin {"idle", "done"}}

\* C27: isExecutingQuery is true exactly when a call of executeQuery is
\* awaiting its result, also when two calls overlap, and isConnecting is
\* true exactly when a call of connectToDatabase is awaiting its result.
C27_BusyFlagsExact ==
    /\ isExecutingQuery <=> Awaiting("query") # {}
    /\ isConnecting <=> Awaiting("connect") # {}

\* C28: when a load of a schema's relations succeeds, its list is in the
\* cache and every list that another load has put there meanwhile is still
\* there: of two overlapping loads of different schemas, neither completion
\* removes or overwrites the entry the other wrote.
C28_OverlappingLoadsKeepBoth ==
    [][\A t \in TaskIds :
          LoadSettles(t, "tables", TRUE) =>
              LET key == <<tasks[t].conn, tasks[t].schema>>
              IN  /\ tablesMap'[key] = tasks[t].res.value
                  /\ \A k \in SchemaKeys \ {key} :
                        tablesMap[k] # None => tablesMap'[k] = tablesMap[k]]_vars

\* C29: when handleConnect completes with a successful connect for a
\* connection that was not expanded, the connection is expanded and a
\* getSchemas request for it has been issued in the same step.
C29_ConnectLoadsSchemas ==
    [][\A t \in TaskIds :
          /\ tasks[t].op = "connect"
          /\ tasks[t].pc = "reply"
          /\ tasks'[t].pc = "done"
          /\ tasks'[t].out = "ok"
          /\ tasks[t].arg[1].id \notin Pre(t).expandedConnections
          => /\ tasks[t].arg[1].id \in expandedConnections'
             /\ tasks[t].arg[1].id \in loadingSchemas'
             /\ \E u \in TaskIds : /\ tasks'[u].op = "schemas"
                                   /\ tasks'[u].conn = tasks[t].arg[1].id
                                   /\ tasks'[u].pc = "ipc"]_vars


\* C30: whenever results are shown, the current page lies in 1..totalPages,
\* and every row the search keeps (every row of the result when the search
\* term is empty) is on some page that calls of handlePageChange lead to.
RECURSIVE PagesReached(_)
PagesReached(pages) ==
    LET more == pages \cup UNION { 1..TotalPages(queryResult, searchTerm, p, rowsPerPage)
                                    : p \in pages }
    IN  IF more = pages THEN pages ELSE PagesReached(more)

C30_PagesCoverMatches ==
    ResultsShown =>
        /\ currentPage \in 1..totalPages
        /\ \A i \in 1..Len(FilteredRows(queryResult[1].rows, searchTerm)) :
               \E p \in PagesReached({currentPage}) :
                   i \in ((p - 1) * rowsPerPage + 1)..(p * rowsPerPage)
=============================================================================
